---- MODULE Spec2Model ----
(***************************************************************************)
(* Model of the G1 audio examples:                                         *)
(*   - the two WakeDialogManager implementations (wakeword_sub_asr.py, the *)
(*     threshold-based one, and g1_audio_wakeword_example.py, the example  *)
(*     one), driven by ASR events, play-state events and the main-loop     *)
(*     tick;                                                               *)
(*   - the audio_receiver loop of socket_audio.py over wav.py's stream     *)
(*     helpers.                                                            *)
(* Time is counted in units of 200 ms, confidence in hundredths.           *)
(* Text is a sequence of characters; a character is written as a string    *)
(* (its pinyin).                                                           *)
(***************************************************************************)
EXTENDS Integers, Sequences, FiniteSets, TLC

VARIABLES
    impl,                \* "thr": wakeword_sub_asr.py, "ex": g1_audio_wakeword_example.py
    clock,               \* time.time()
    awake, last_heard_time, last_trigger_ts, play_state,
    partial_buffer, partial_hits,
    require_final, accept_partials, ignore_when_playing, need_partial_hits,
    collab_fails,        \* whether LedControl and TtsMaker may raise
    n_ops,               \* the number of operations performed so far
    ev,                  \* the operation the last step performed and its inputs
    fx,                  \* the collaborator calls the last step made, in order
    woke,                \* the text the last step's wake log line shows, <<>> when it did not trigger
    HAS_SCIPY,           \* whether scipy.signal.resample_poly could be imported
    in24_buf, out16_buf, \* audio_receiver's buffers
    stream_id,           \* _STREAM_IDS.get("stream"), 0 when absent
    id_clock,            \* the last stream id made (ids come from the clock)
    pc,                  \* where audio_receiver is: "loop", "done", "raised"
    epoch,               \* one more than the number of interrupts handled
    dev_fails,           \* whether PlayStream may return a nonzero code
    n_msgs,              \* the number of loop iterations so far
    msg,                 \* what the last loop iteration received
    io,                  \* the stream calls the last loop iteration made, in order
    call,                \* the last application of a pure function: its name, arguments and result
    tick_pc,             \* where the main loop is in tick: "idle", or "sleep" between the test and _sleep
    cb_pc                \* where the subscriber's callback is in _trigger_wake: "idle", "ts", "awake"

wakeVars == <<impl, clock, awake, last_heard_time, last_trigger_ts, play_state,
              partial_buffer, partial_hits,
              require_final, accept_partials, ignore_when_playing, need_partial_hits,
              collab_fails, n_ops, ev, fx, woke>>

audioVars == <<HAS_SCIPY, in24_buf, out16_buf, stream_id, id_clock, pc, epoch,
               dev_fails, n_msgs, msg, io>>

threadVars == <<tick_pc, cb_pc>>

vars == <<wakeVars, audioVars, call, threadVars>>

----------------------------------------------------------------------------
(* Bounds of the model *)

\* time.time() when the manager is constructed (any value larger than every
\* timeout: the timestamps start at 0.0)
StartTime == 30
\* the clock is not advanced past StartTime + MaxElapsed
MaxElapsed == 30
\* operations (events, ticks) performed on the manager
MaxOps == 4

----------------------------------------------------------------------------
(* Program constants *)

\* wakeword_sub_asr.py
DEFAULT_CONF_THRESHOLD_FINAL == 20
DEFAULT_CONF_THRESHOLD_PARTIAL == 15
DEFAULT_SESSION_TIMEOUT == 25
DEFAULT_DEBOUNCE_COOLDOWN == 4
DEFAULT_WINDOW_MS == 6
DEFAULT_FRONT_CENTER == 90
DEFAULT_FRONT_TOLER == 60
DEFAULT_FRONT_BOOST == 5

\* g1_audio_wakeword_example.py
CONFIDENCE_THRESHOLD == 20
SESSION_TIMEOUT == 25
DEBOUNCE_COOLDOWN == 6
REQUIRE_FINAL == TRUE
IGNORE_WHEN_PLAYING == TRUE
DEFAULT_IGNORE_WHEN_PLAYING == TRUE

\* the configuration the threshold-based manager is constructed with
conf_final == DEFAULT_CONF_THRESHOLD_FINAL
conf_partial == DEFAULT_CONF_THRESHOLD_PARTIAL
session_timeout == DEFAULT_SESSION_TIMEOUT
debounce_cooldown == DEFAULT_DEBOUNCE_COOLDOWN
window_ms == DEFAULT_WINDOW_MS
front_center == DEFAULT_FRONT_CENTER
front_toler == DEFAULT_FRONT_TOLER
front_boost == DEFAULT_FRONT_BOOST

----------------------------------------------------------------------------
(* Text *)

Min(a, b) == IF a < b THEN a ELSE b
Max(a, b) == IF a > b THEN a ELSE b
Abs(a) == IF a < 0 THEN -a ELSE a

\* the characters _normalize_text removes (whitespace and punctuation)
StripChars == {"space", "comma", "period", "qmark"}

_normalize_text(s) == SelectSeq(s, LAMBDA c : c \notin StripChars)

\* Python's `t in text` for strings
IsSubstring(t, text) ==
    \E i \in 0..(Len(text) - Len(t)) : SubSeq(text, i + 1, i + Len(t)) = t

\* Python's text[i:j]
Slice(text, i, j) == SubSeq(text, i + 1, Min(j, Len(text)))

HOMOPHONE_SET == <<"yuan", "yuan_far", "yuan_round", "yuan_member", "yuan_origin",
                   "yuan_garden", "yuan_fate", "yuan_source", "xi", "xuan_dark",
                   "xuan_declare", "xuan_high", "xuan_spin", "xuan_render">>

WAKE_SUFFIXES == << <<"ni", "hao">>, <<>>, <<"zai", "ma">>, <<"zai", "bu", "zai">> >>

Range(s) == {s[i] : i \in DOMAIN s}

\* a compiled pattern is the (finite) set of the strings it matches;
\* pat.search(norm) holds when one of them occurs in norm
Greeting == {<<>>, <<"ni", "hao">>, <<"wei">>, <<"ha", "lou">>}
REGEX_PATTERNS ==
    << {g \o <<"xiao", h>> : g \in Greeting, h \in Range(HOMOPHONE_SET)},
       {<<"xiao", h, "ni", "hao">> : h \in Range(HOMOPHONE_SET)},
       {<<"ni", "hao", "xiao", h>> : h \in Range(HOMOPHONE_SET)},
       {<<"huan", "xing">>} >>

ExHomophones == {"yuan", "yuan_far", "xi"}
WAKE_WORDS ==
    << {g \o <<"xiao", h>> : g \in Greeting, h \in ExHomophones},
       {<<"xiao", h, "ni", "hao">> : h \in ExHomophones},
       {<<"ni", "hao", "xiao", h>> : h \in ExHomophones},
       {<<"huan", "xing">>} >>

pat_search(pat, norm) == \E w \in pat : IsSubstring(w, norm)

FUZZY_TARGETS ==
    {<<"xiao", h>> \o WAKE_SUFFIXES[k] :
        h \in Range(HOMOPHONE_SET), k \in DOMAIN WAKE_SUFFIXES}

Min3(a, b, c) == Min(a, Min(b, c))

\* one row of the dynamic programme: cur[j + 1] is the code's cur[j]
LevRow(ai, b, prev, i) ==
    LET lb == Len(b)
        cur[j \in 0..lb] ==
            IF j = 0 THEN i
            ELSE Min3(prev[j + 1] + 1,
                      cur[j - 1] + 1,
                      prev[j] + (IF ai = b[j] THEN 0 ELSE 1))
    IN [j \in 1..(lb + 1) |-> cur[j - 1]]

SeqMin(s) == CHOOSE m \in Range(s) : \A x \in Range(s) : m <= x

RECURSIVE LevRows(_, _, _, _, _)
LevRows(a, b, max_dist, i, prev) ==
    IF i > Len(a) THEN prev[Len(b) + 1]
    ELSE LET cur == LevRow(a[i], b, prev, i)
             row_min == SeqMin(cur)
         IN IF row_min > max_dist THEN row_min
            ELSE LevRows(a, b, max_dist, i + 1, cur)

\* a variant without the test on the lengths
levenshtein_distance_without_length_test(a, b, max_dist) ==
    IF a = b THEN 0
    ELSE LevRows(a, b, max_dist, 1, [j \in 1..(Len(b) + 1) |-> j - 1])

levenshtein_distance(a, b, max_dist) ==
    IF a = b THEN 0
    ELSE IF Abs(Len(a) - Len(b)) > max_dist THEN max_dist + 1
    ELSE LevRows(a, b, max_dist, 1, [j \in 1..(Len(b) + 1) |-> j - 1])

fuzzy_contains_substring_only(text0, targets, max_dist) ==
    IF text0 = <<>> THEN FALSE
    ELSE LET text == _normalize_text(text0)
         IN \E t0 \in targets :
              LET t == _normalize_text(t0)
                  lt == Len(t)
              IN /\ ~(lt = 0 \/ lt > Len(text) + max_dist)
                 /\ IsSubstring(t, text)

fuzzy_contains(text0, targets, max_dist) ==
    IF text0 = <<>> THEN FALSE
    ELSE LET text == _normalize_text(text0)
         IN \E t0 \in targets :
              LET t == _normalize_text(t0)
                  lt == Len(t)
              IN /\ ~(lt = 0 \/ lt > Len(text) + max_dist)
                 /\ \/ IsSubstring(t, text)
                    \/ \E i \in 0..(Max(1, Len(text) - lt + 1) - 1) :
                         levenshtein_distance(Slice(text, i, i + lt), t, max_dist)
                            <= max_dist

----------------------------------------------------------------------------
(* Inputs *)

WakeText == <<"xiao", "comma", "yuan">>
OtherText == <<"tian", "qi">>
FarewellText == <<"zai_again", "jian">>
ThrTexts == {WakeText, <<"huan">>, <<"xing">>}
TimeFarewellText == <<"ji", "dian", "zai_again", "jian">>
ExTexts == {WakeText, OtherText, FarewellText, TimeFarewellText}
\* (confidence, angle) of an event; js.get("angle"): <<>> is None, <<a>> is the angle a
ThrConfAngles == {<<10, <<>> >>, <<17, <<>> >>, <<17, <<90>> >>}
ExConfAngles == {<<10, <<>> >>, <<90, <<90>> >>}
\* which collaborator call of an operation raises
Failures == IF collab_fails THEN {"none", "led", "tts"} ELSE {"none"}
\* the time that may pass inside on_asr_json between its reading of `now` and
\* _trigger_wake's reading of the time
Lags == {0, 1}

\* the texts the partial window can hold merged: one per event
RECURSIVE TextsUpTo(_)
TextsUpTo(n) ==
    IF n = 0 THEN {<<>>}
    ELSE LET shorter == TextsUpTo(n - 1)
         IN shorter \cup {m \o t : m \in shorter, t \in ThrTexts}
MergedTexts == TextsUpTo(MaxOps)

NoEvent == [op |-> "init", text |-> <<>>, conf |-> 0, is_final |-> TRUE,
            angle |-> <<>>, now |-> 0]

Call(name, arg, raised) == [call |-> name, arg |-> arg, raised |-> raised]

----------------------------------------------------------------------------
(* wakeword_sub_asr.py: WakeDialogManager *)

\* the manager's configuration as __init__ stores it
Config(cf, cp, fc, ft, fb) ==
    [conf_final |-> cf, conf_partial |-> cp, front_center |-> fc,
     front_toler |-> ft, front_boost |-> fb]
DefaultConfig == Config(conf_final, conf_partial, front_center, front_toler, front_boost)

\* a variant whose front range excludes its two ends
threshold_with_open_range(self, is_final, angle) ==
    LET base == IF is_final THEN self.conf_final ELSE self.conf_partial
    IN IF angle # <<>> /\ Abs(angle[1] - self.front_center) < self.front_toler
       THEN Max(0, base - self.front_boost)
       ELSE base

\* _threshold_for under a configuration; angle is None (<<>>) or a value that
\* int() turns into the integer a (<<a>>)
threshold_with(self, is_final, angle) ==
    LET base == IF is_final THEN self.conf_final ELSE self.conf_partial
    IN IF angle # <<>> /\ Abs(angle[1] - self.front_center) <= self.front_toler
       THEN Max(0, base - self.front_boost)
       ELSE base

_threshold_for(is_final, angle) == threshold_with(DefaultConfig, is_final, angle)

thr_matches_wake(text, confidence) ==
    IF text = <<>> THEN FALSE
    ELSE LET norm == _normalize_text(text)
         IN \/ \E k \in DOMAIN REGEX_PATTERNS : pat_search(REGEX_PATTERNS[k], norm)
            \/ fuzzy_contains(norm, FUZZY_TARGETS, 1)

\* _matches_wake on the texts of the model, evaluated once (it ignores the confidence)
ThrMatch == [t \in MergedTexts |-> thr_matches_wake(t, 0)]

\* a variant that never evicts
_feed_partial_keeps_all(buf, text, now) == Append(buf, <<now, text>>)

\* partial_buffer after _feed_partial(text) at time now
_feed_partial(buf, text, now) ==
    LET cutoff == now - window_ms
    IN SelectSeq(Append(buf, <<now, text>>), LAMBDA e : e[1] >= cutoff)

RECURSIVE JoinTexts(_)
JoinTexts(buf) ==
    IF buf = <<>> THEN <<>> ELSE buf[1][2] \o JoinTexts(Tail(buf))

\* a variant that looks at the newest entry only
_merged_recent_text_newest_only(buf) ==
    IF buf = <<>> THEN <<>> ELSE buf[Len(buf)][2]

_merged_recent_text(buf) == JoinTexts(buf)

\* the calls of _trigger_wake's feedback block: a raising call ends the block
WakeFeedback(fail) ==
    IF fail = "led" THEN <<Call("LedControl", "green", TRUE)>>
    ELSE <<Call("LedControl", "green", FALSE), Call("TtsMaker", "wake", fail = "tts")>>

\* _sleep's indicator call; its failure is swallowed
SleepFeedback(fail) == <<Call("LedControl", "off", fail = "led")>>

thr_trigger_wake_heard_stale(now, text) ==
    \E lag \in Lags, fail \in Failures :
        /\ now + lag <= StartTime + MaxElapsed
        /\ clock' = now + lag
        /\ partial_buffer' = <<>>
        /\ partial_hits' = 0
        /\ last_trigger_ts' = now + lag
        /\ awake' = TRUE
        /\ last_heard_time' = last_heard_time
        /\ fx' = WakeFeedback(fail)
        /\ woke' = text

\* a variant in which a raising collaborator undoes the transition
thr_trigger_wake_undone_by_failure(now, text) ==
    \E lag \in Lags, fail \in Failures :
        /\ now + lag <= StartTime + MaxElapsed
        /\ clock' = now + lag
        /\ partial_buffer' = <<>>
        /\ partial_hits' = 0
        /\ last_trigger_ts' = IF fail = "none" THEN now + lag ELSE last_trigger_ts
        /\ awake' = IF fail = "none" THEN TRUE ELSE awake
        /\ last_heard_time' = IF fail = "none" THEN now + lag ELSE last_heard_time
        /\ fx' = WakeFeedback(fail)
        /\ woke' = IF fail = "none" THEN text ELSE <<>>

\* a variant that gives the feedback on the transition from asleep only
thr_trigger_wake_feedback_on_transition_only(now, text) ==
    \E lag \in Lags, fail \in Failures :
        /\ now + lag <= StartTime + MaxElapsed
        /\ clock' = now + lag
        /\ partial_buffer' = <<>>
        /\ partial_hits' = 0
        /\ last_trigger_ts' = now + lag
        /\ awake' = TRUE
        /\ last_heard_time' = now + lag
        /\ fx' = IF awake THEN <<>> ELSE WakeFeedback(fail)
        /\ woke' = text

\* _reset_partial_state followed by _trigger_wake, which reads the time again
thr_trigger_wake(now, text) ==
    \E lag \in Lags, fail \in Failures :
        /\ now + lag <= StartTime + MaxElapsed
        /\ clock' = now + lag
        /\ partial_buffer' = <<>>
        /\ partial_hits' = 0
        /\ last_trigger_ts' = now + lag
        /\ awake' = TRUE
        /\ last_heard_time' = now + lag
        /\ fx' = WakeFeedback(fail)
        /\ woke' = text

\* a variant that forgets the hits when the window has evicted an entry
thr_return_hits_follow_window(now, buf, hits) ==
    /\ clock' = now
    /\ partial_buffer' = buf
    /\ partial_hits' = IF buf # partial_buffer /\ Len(buf) <= Len(partial_buffer)
                         THEN 0 ELSE hits
    /\ fx' = <<>>
    /\ woke' = <<>>
    /\ UNCHANGED <<awake, last_heard_time, last_trigger_ts>>

\* a return that leaves the manager as it was, but for the partial window
thr_return(now, buf, hits) ==
    /\ clock' = now
    /\ partial_buffer' = buf
    /\ partial_hits' = hits
    /\ fx' = <<>>
    /\ woke' = <<>>
    /\ UNCHANGED <<awake, last_heard_time, last_trigger_ts>>

\* the conditions on_asr_json branches on
thr_ignoring_never == FALSE
thr_ignoring == ignore_when_playing /\ play_state = 1

thr_below_threshold_partial_base(conf, is_final, angle) ==
    conf < _threshold_for(FALSE, angle)
thr_below_threshold(conf, is_final, angle) == conf < _threshold_for(is_final, angle)

thr_debounce_ok_always(now) == TRUE
thr_debounce_ok(now) == now - last_trigger_ts >= debounce_cooldown

\* a below-threshold event is still fed to the window
thr_feed_below_threshold_never(is_final) == FALSE
thr_feed_below_threshold(is_final) == ~is_final /\ accept_partials

\* a non-final event is only fed to the window
thr_feed_only_never == FALSE
thr_feed_only == ~accept_partials

thr_session_expired_asleep_too(now) == (now - last_heard_time) > session_timeout
thr_session_expired(now) == awake /\ (now - last_heard_time) > session_timeout

thr_on_asr_json(d, text, conf, is_final, angle) ==
    LET now == clock + d
        matched == ThrMatch[text]
        fed == _feed_partial(partial_buffer, text, now)
        merged == _merged_recent_text(fed)
    IN
    /\ impl = "thr"
    /\ now <= StartTime + MaxElapsed
    /\ n_ops < MaxOps
    /\ n_ops' = n_ops + 1
    /\ ev' = [op |-> "asr", text |-> text, conf |-> conf, is_final |-> is_final,
              angle |-> angle, now |-> now]
    /\ UNCHANGED <<impl, play_state, require_final, accept_partials,
                   ignore_when_playing, need_partial_hits, collab_fails>>
    /\ IF thr_ignoring
         THEN thr_return(now, partial_buffer, partial_hits)
       ELSE IF thr_below_threshold(conf, is_final, angle)
         THEN IF thr_feed_below_threshold(is_final)
                THEN thr_return(now, fed, partial_hits)
                ELSE thr_return(now, partial_buffer, partial_hits)
       ELSE IF is_final
         THEN IF require_final \/ ~accept_partials
                THEN IF ~matched THEN thr_return(now, partial_buffer, partial_hits)
                     ELSE IF ~thr_debounce_ok(now)
                       THEN thr_return(now, partial_buffer, partial_hits)
                     ELSE thr_trigger_wake(now, text)
                ELSE IF matched /\ thr_debounce_ok(now)
                       THEN thr_trigger_wake(now, text)
                       ELSE thr_return(now, partial_buffer, partial_hits)
       ELSE IF thr_feed_only
         THEN thr_return(now, fed, partial_hits)
       ELSE IF ThrMatch[merged]
         THEN IF partial_hits + 1 >= need_partial_hits /\ thr_debounce_ok(now)
                THEN thr_trigger_wake(now, merged)
                ELSE thr_return(now, fed, partial_hits + 1)
       ELSE thr_return(now, fed, partial_hits)

thr_tick(d, fail) ==
    /\ impl = "thr"
    /\ clock + d <= StartTime + MaxElapsed
    /\ clock' = clock + d
    /\ n_ops < MaxOps
    /\ n_ops' = n_ops + 1
    /\ ev' = [NoEvent EXCEPT !.op = "tick", !.now = clock + d]
    /\ woke' = <<>>
    /\ IF thr_session_expired(clock + d)
         THEN /\ awake' = FALSE
              /\ fx' = SleepFeedback(fail)
         ELSE /\ awake' = awake
              /\ fx' = <<>>
    /\ UNCHANGED <<impl, last_heard_time, last_trigger_ts, play_state,
                   partial_buffer, partial_hits, require_final, accept_partials,
                   ignore_when_playing, need_partial_hits, collab_fails>>

----------------------------------------------------------------------------
(* wakeword_sub_asr.py: tick in the main loop and on_asr_json on the         *)
(* subscriber's callback, step by step.  Nothing in the manager serialises    *)
(* the two: each attribute read or written is one step.                       *)

\* tick: the test `self.awake and (time.time() - self.last_heard_time) > ...`
tick_check(d) ==
    /\ impl = "thr"
    /\ tick_pc = "idle"
    /\ clock + d <= StartTime + MaxElapsed
    /\ clock' = clock + d
    /\ tick_pc' = IF thr_session_expired(clock + d) THEN "sleep" ELSE "idle"
    /\ ev' = [NoEvent EXCEPT !.op = "tick", !.now = clock + d]
    /\ fx' = <<>>
    /\ woke' = <<>>
    /\ UNCHANGED <<impl, awake, last_heard_time, last_trigger_ts, play_state,
                   partial_buffer, partial_hits, require_final, accept_partials,
                   ignore_when_playing, need_partial_hits, collab_fails, n_ops, cb_pc>>

\* tick: _sleep()
tick_sleep ==
    /\ tick_pc = "sleep"
    /\ tick_pc' = "idle"
    /\ awake' = FALSE
    /\ fx' = SleepFeedback("none")
    /\ UNCHANGED <<impl, clock, last_heard_time, last_trigger_ts, play_state,
                   partial_buffer, partial_hits, require_final, accept_partials,
                   ignore_when_playing, need_partial_hits, collab_fails, n_ops,
                   ev, woke, cb_pc>>

\* on_asr_json for a final event that passes the threshold and matches, up to
\* the first assignment of _trigger_wake: self.last_trigger_ts = time.time()
cb_trigger_ts(d) ==
    LET now == clock + d
    IN  /\ impl = "thr"
        /\ cb_pc = "idle"
        /\ now <= StartTime + MaxElapsed
        /\ ~thr_ignoring
        /\ thr_debounce_ok(now)
        /\ clock' = now
        /\ partial_buffer' = <<>>
        /\ partial_hits' = 0
        /\ last_trigger_ts' = now
        /\ cb_pc' = "ts"
        /\ ev' = [op |-> "asr", text |-> WakeText, conf |-> 17, is_final |-> TRUE,
                  angle |-> <<>>, now |-> now]
        /\ fx' = <<>>
        /\ woke' = <<>>
        /\ UNCHANGED <<impl, awake, last_heard_time, play_state, require_final,
                       accept_partials, ignore_when_playing, need_partial_hits,
                       collab_fails, n_ops, tick_pc>>

\* _trigger_wake: self.awake = True
cb_trigger_awake ==
    /\ cb_pc = "ts"
    /\ cb_pc' = "awake"
    /\ awake' = TRUE
    /\ UNCHANGED <<impl, clock, last_heard_time, last_trigger_ts, play_state,
                   partial_buffer, partial_hits, require_final, accept_partials,
                   ignore_when_playing, need_partial_hits, collab_fails, n_ops,
                   ev, fx, woke, tick_pc>>

\* _trigger_wake: self.last_heard_time = self.last_trigger_ts, then the feedback
cb_trigger_heard ==
    /\ cb_pc = "awake"
    /\ cb_pc' = "idle"
    /\ last_heard_time' = last_trigger_ts
    /\ fx' = WakeFeedback("none")
    /\ woke' = ev.text
    /\ UNCHANGED <<impl, clock, awake, last_trigger_ts, play_state,
                   partial_buffer, partial_hits, require_final, accept_partials,
                   ignore_when_playing, need_partial_hits, collab_fails, n_ops,
                   ev, tick_pc>>

----------------------------------------------------------------------------
(* g1_audio_wakeword_example.py: WakeDialogManager *)

ex_matches_wake(text, confidence) ==
    IF text = <<>> THEN FALSE
    ELSE IF confidence < CONFIDENCE_THRESHOLD THEN FALSE
    ELSE LET norm == _normalize_text(text)
         IN \E k \in DOMAIN WAKE_WORDS : pat_search(WAKE_WORDS[k], norm)

\* a variant that looks for the farewell keywords first
ex_reply_farewell_first(text) ==
    IF IsSubstring(<<"zai_again", "jian">>, text)
            \/ IsSubstring(<<"tui", "chu">>, text)
      THEN "farewell"
    ELSE IF IsSubstring(<<"shi", "jian_time">>, text) \/ IsSubstring(<<"ji", "dian">>, text)
      THEN "time"
    ELSE IF IsSubstring(<<"ni", "de", "ming", "zi">>, text)
            \/ IsSubstring(<<"ni", "shi", "shei">>, text)
      THEN "identity"
    ELSE "echo"

\* the reply table of the dialogue branch, keyed by substring containment
ex_reply(text) ==
    IF IsSubstring(<<"shi", "jian_time">>, text) \/ IsSubstring(<<"ji", "dian">>, text)
      THEN "time"
    ELSE IF IsSubstring(<<"ni", "de", "ming", "zi">>, text)
            \/ IsSubstring(<<"ni", "shi", "shei">>, text)
      THEN "identity"
    ELSE IF IsSubstring(<<"zai_again", "jian">>, text)
            \/ IsSubstring(<<"tui", "chu">>, text)
      THEN "farewell"
    ELSE "echo"

ex_ignoring == IGNORE_WHEN_PLAYING /\ play_state = 1

ex_debounced(now) == now - last_trigger_ts < DEBOUNCE_COOLDOWN

ex_session_expired(now) == awake /\ (now - last_heard_time) > SESSION_TIMEOUT

ex_on_asr_json(d, text, conf, is_final, angle) ==
    LET now == clock + d
    IN
    /\ impl = "ex"
    /\ now <= StartTime + MaxElapsed
    /\ clock' = now
    /\ n_ops < MaxOps
    /\ n_ops' = n_ops + 1
    /\ ev' = [op |-> "asr", text |-> text, conf |-> conf, is_final |-> is_final,
              angle |-> angle, now |-> now]
    /\ UNCHANGED <<impl, play_state, partial_buffer, partial_hits,
                   require_final, accept_partials, ignore_when_playing,
                   need_partial_hits, collab_fails>>
    /\ IF ex_ignoring
         THEN /\ fx' = <<>>
              /\ woke' = <<>>
              /\ UNCHANGED <<awake, last_heard_time, last_trigger_ts>>
       ELSE IF REQUIRE_FINAL /\ ~is_final
         THEN /\ fx' = <<>>
              /\ woke' = <<>>
              /\ UNCHANGED <<awake, last_heard_time, last_trigger_ts>>
       ELSE IF ex_matches_wake(text, conf)
         THEN IF ex_debounced(now)
                THEN /\ fx' = <<>>
                     /\ woke' = <<>>
                     /\ UNCHANGED <<awake, last_heard_time, last_trigger_ts>>
                ELSE /\ last_trigger_ts' = now
                     /\ awake' = TRUE
                     /\ last_heard_time' = now
                     /\ \E fail \in Failures : fx' = WakeFeedback(fail)
                     /\ woke' = text
       ELSE IF awake
         THEN /\ last_heard_time' = now
              /\ last_trigger_ts' = last_trigger_ts
              /\ woke' = <<>>
              /\ IF ex_reply(text) = "farewell"
                   THEN /\ awake' = FALSE
                        /\ \E fail \in Failures :
                             fx' = SleepFeedback(fail)
                                     \o <<Call("TtsMaker", "farewell", fail = "tts")>>
                   ELSE /\ awake' = awake
                        /\ \E fail \in Failures :
                             fx' = <<Call("TtsMaker", ex_reply(text), fail = "tts")>>
       ELSE /\ fx' = <<>>
            /\ woke' = <<>>
            /\ UNCHANGED <<awake, last_heard_time, last_trigger_ts>>

ex_tick(d, fail) ==
    /\ impl = "ex"
    /\ clock + d <= StartTime + MaxElapsed
    /\ clock' = clock + d
    /\ n_ops < MaxOps
    /\ n_ops' = n_ops + 1
    /\ ev' = [NoEvent EXCEPT !.op = "tick", !.now = clock + d]
    /\ woke' = <<>>
    /\ IF ex_session_expired(clock + d)
         THEN /\ awake' = FALSE
              /\ fx' = SleepFeedback(fail)
         ELSE /\ awake' = awake
              /\ fx' = <<>>
    /\ UNCHANGED <<impl, last_heard_time, last_trigger_ts, play_state,
                   partial_buffer, partial_hits, require_final, accept_partials,
                   ignore_when_playing, need_partial_hits, collab_fails>>

----------------------------------------------------------------------------
(* both managers *)

\* _play_cb: a payload with a play_state field
set_play_state(d, playing) ==
    /\ clock + d <= StartTime + MaxElapsed
    /\ clock' = clock + d
    /\ n_ops < MaxOps
    /\ n_ops' = n_ops + 1
    /\ play_state' = IF playing # 0 THEN 1 ELSE 0
    /\ ev' = [NoEvent EXCEPT !.op = "play", !.now = clock + d]
    /\ woke' = <<>>
    /\ fx' = <<>>
    /\ UNCHANGED <<impl, awake, last_heard_time, last_trigger_ts,
                   partial_buffer, partial_hits, require_final, accept_partials,
                   ignore_when_playing, need_partial_hits, collab_fails>>

----------------------------------------------------------------------------
(* Byte strings.  A byte string is a sequence of runs <<tag, n>>: n > 0      *)
(* bytes of one provenance, adjacent runs having different tags.  Tag 0 is   *)
(* a zero byte (padding, silence); a byte of received audio carries the      *)
(* epoch it was received in.  Sample values are not modelled.                *)

RECURSIVE BLen(_)
BLen(b) == IF b = <<>> THEN 0 ELSE b[1][2] + BLen(Tail(b))

BCat(a, b) ==
    IF a = <<>> THEN b
    ELSE IF b = <<>> THEN a
    ELSE IF a[Len(a)][1] = b[1][1]
      THEN SubSeq(a, 1, Len(a) - 1)
             \o << <<b[1][1], a[Len(a)][2] + b[1][2]>> >> \o Tail(b)
      ELSE a \o b

RECURSIVE BTake(_, _)
BTake(b, k) ==
    IF k <= 0 \/ b = <<>> THEN <<>>
    ELSE IF b[1][2] <= k THEN BCat(<<b[1]>>, BTake(Tail(b), k - b[1][2]))
    ELSE << <<b[1][1], k>> >>

RECURSIVE BDrop(_, _)
BDrop(b, k) ==
    IF k <= 0 \/ b = <<>> THEN b
    ELSE IF b[1][2] <= k THEN BDrop(Tail(b), k - b[1][2])
    ELSE << <<b[1][1], b[1][2] - k>> >> \o Tail(b)

Bytes(tag, n) == IF n <= 0 THEN <<>> ELSE << <<tag, n>> >>
Zeros(n) == Bytes(0, n)
BTags(b) == {b[i][1] : i \in DOMAIN b}
OldestTag(b) == CHOOSE t \in BTags(b) : \A u \in BTags(b) : t <= u

----------------------------------------------------------------------------
(* wav.py: the stream helpers.  The device side is a record dv:              *)
(*   sid  _STREAM_IDS.get("stream"), 0 when absent                           *)
(*   clk  the last id made                                                   *)
(*   io   the calls made so far in this loop iteration                       *)

\* 2 * 1 * 320 in play_stream_write
frame_bytes == 640

IO(name, sid, data, ret_code) ==
    [call |-> name, sid |-> sid, data |-> data, ret_code |-> ret_code]

NPlayStream(calls) == Cardinality({i \in DOMAIN calls : calls[i].call = "PlayStream"})

\* the id is the clock in milliseconds; every id this program makes follows
\* a sleep or a network round trip after the previous one, so it is fresh
_get_or_make_stream_id(dv) ==
    IF dv.sid # 0 THEN dv
    ELSE [dv EXCEPT !.sid = dv.clk + 1, !.clk = dv.clk + 1,
                    !.io = Append(@, IO("new_id", dv.clk + 1, <<>>, 0))]

play_stream_open(dv) == _get_or_make_stream_id(dv)

\* the while loop of play_stream_write; the fail_at-th PlayStream call of the
\* iteration returns a nonzero code (none when fail_at = 0)
RECURSIVE play_stream_write_loop(_, _, _, _, _)
play_stream_write_loop(dv, data, offset, chunk_size, fail_at) ==
    IF offset >= BLen(data) THEN dv
    ELSE LET size0 == Min(chunk_size, BLen(data) - offset)
             size == (size0 \div frame_bytes) * frame_bytes
         IN IF size = 0 THEN dv
            ELSE LET chunk == BTake(BDrop(data, offset), size)
                     ret_code == IF NPlayStream(dv.io) + 1 = fail_at THEN 1 ELSE 0
                     dv1 == [dv EXCEPT !.io =
                                Append(@, IO("PlayStream", dv.sid, chunk, ret_code))]
                 IN IF ret_code # 0 THEN dv1
                    ELSE play_stream_write_loop(dv1, data, offset + size,
                                                chunk_size, fail_at)

play_stream_write(dv, pcm_bytes, chunk_size, fail_at) ==
    IF pcm_bytes = <<>> THEN dv
    ELSE LET usable == (BLen(pcm_bytes) \div frame_bytes) * frame_bytes
         IN IF usable = 0 THEN dv
            ELSE play_stream_write_loop(_get_or_make_stream_id(dv),
                                        BTake(pcm_bytes, usable), 0,
                                        chunk_size, fail_at)

\* PlayStop (an exception of which is swallowed), then the id is forgotten
play_stream_close(dv) ==
    [dv EXCEPT !.io = Append(@, IO("PlayStop", dv.sid, <<>>, 0)), !.sid = 0]

----------------------------------------------------------------------------
(* socket_audio.py: constants and pure helpers *)

ORIG_SAMPLE_RATE == 24000
TARGET_SAMPLE_RATE == 16000
FRAME_SAMPLES_16K == 320
FRAME_BYTES_16K == FRAME_SAMPLES_16K * 2
PLAY_CHUNK_FRAMES == 16
PLAY_CHUNK_BYTES == PLAY_CHUNK_FRAMES * FRAME_BYTES_16K
MIN_ENQUEUE_FRAMES == 6
MIN_ENQUEUE_BYTES == MIN_ENQUEUE_FRAMES * FRAME_BYTES_16K
RS_BLOCK_MS == 80
RS_BLOCK_SAMPLES_24K == (ORIG_SAMPLE_RATE * RS_BLOCK_MS) \div 1000
RS_BLOCK_BYTES_24K == RS_BLOCK_SAMPLES_24K * 2
EOU_SILENCE_FRAMES == 4
EOU_SILENCE_BYTES == EOU_SILENCE_FRAMES * FRAME_BYTES_16K
TAIL_SILENCE_FRAMES == 24
TAIL_SILENCE_BYTES == TAIL_SILENCE_FRAMES * FRAME_BYTES_16K
DEVICE_WRITE_CHUNK_BYTES == 640 * 16

\* np.frombuffer(buf, dtype=np.int16) raises ValueError unless the length is
\* a multiple of the element size
frombuffer_raises(b) == BLen(b) % 2 # 0

\* the number of samples resample_24k_to_16k_int16 returns for n samples:
\* resample_poly(x, 2, 3) gives the ceiling of 2n/3; the fallback rounds
\* n * 16000/24000 (never a tie) and returns nothing when that is at most 1
resample_len(n) ==
    IF n = 0 THEN 0
    ELSE IF HAS_SCIPY THEN (n * 2 + 2) \div 3
    ELSE LET out_len == (2 * n * TARGET_SAMPLE_RATE + ORIG_SAMPLE_RATE)
                           \div (2 * ORIG_SAMPLE_RATE)
         IN IF out_len <= 1 THEN 0 ELSE out_len

\* on byte strings of whole samples: the output carries the provenance of the
\* oldest audio in the input
resample_24k_to_16k_int16(pcm24) ==
    IF pcm24 = <<>> THEN <<>>
    ELSE Bytes(OldestTag(pcm24), 2 * resample_len(BLen(pcm24) \div 2))

\* AGCState.process returns as many samples as it is given; the gain and the
\* sample values are outside this model
agc_process(x) == IF BLen(x) = 0 THEN x ELSE Bytes(OldestTag(x), BLen(x))

align_frames_16k_pads_aligned_input(pcm16_bytes, pad) ==
    LET usable == (BLen(pcm16_bytes) \div FRAME_BYTES_16K) * FRAME_BYTES_16K
        head == BTake(pcm16_bytes, usable)
        tail == BDrop(pcm16_bytes, usable)
    IN IF pad
         THEN <<BCat(BCat(head, tail), Zeros(FRAME_BYTES_16K - BLen(tail))), <<>> >>
         ELSE <<head, tail>>

align_frames_16k(pcm16_bytes, pad) ==
    LET usable == (BLen(pcm16_bytes) \div FRAME_BYTES_16K) * FRAME_BYTES_16K
        head == BTake(pcm16_bytes, usable)
        tail == BDrop(pcm16_bytes, usable)
    IN IF pad /\ tail # <<>>
         THEN <<BCat(BCat(head, tail), Zeros(FRAME_BYTES_16K - BLen(tail))), <<>> >>
         ELSE <<head, tail>>

----------------------------------------------------------------------------
(* socket_audio.py: audio_receiver's closures and loops *)

RECURSIVE enqueue_16k(_, _, _)
enqueue_16k(dv, mv, fail_at) ==
    IF mv = <<>> THEN dv
    ELSE LET send_bytes == Min(BLen(mv), Max(PLAY_CHUNK_BYTES, DEVICE_WRITE_CHUNK_BYTES))
             usable == (send_bytes \div FRAME_BYTES_16K) * FRAME_BYTES_16K
         IN IF usable = 0 THEN dv
            ELSE enqueue_16k(play_stream_write(dv, BTake(mv, usable),
                                               DEVICE_WRITE_CHUNK_BYTES, fail_at),
                             BDrop(mv, usable), fail_at)

\* a variant that writes no inter-utterance silence
flush_utterance_tail_without_silence(out16, dv, fail_at) ==
    LET playable == align_frames_16k(out16, TRUE)[1]
    IN [out16 |-> <<>>,
        dv |-> IF out16 # <<>> /\ playable # <<>>
                 THEN enqueue_16k(dv, playable, fail_at) ELSE dv]

\* a variant that writes the silence after buffered audio only
flush_utterance_tail_silence_after_audio_only(out16, dv, fail_at) ==
    LET playable == align_frames_16k(out16, TRUE)[1]
    IN [out16 |-> <<>>,
        dv |-> IF out16 # <<>> /\ playable # <<>>
                 THEN enqueue_16k(enqueue_16k(dv, playable, fail_at),
                                  Zeros(EOU_SILENCE_BYTES), fail_at)
                 ELSE dv]

\* returns the new out16_buf and device record
flush_utterance_tail(out16, dv, fail_at) ==
    LET playable == align_frames_16k(out16, TRUE)[1]
        dv1 == IF out16 # <<>> /\ playable # <<>>
                 THEN enqueue_16k(dv, playable, fail_at) ELSE dv
        dv2 == IF EOU_SILENCE_BYTES > 0
                 THEN enqueue_16k(dv1, Zeros(EOU_SILENCE_BYTES), fail_at) ELSE dv1
    IN [out16 |-> <<>>, dv |-> dv2]

\* a variant that keeps the resampled audio across the interrupt
handle_interrupt_keeps_out16(in24, out16, dv) ==
    [in24 |-> <<>>, out16 |-> out16, dv |-> play_stream_open(play_stream_close(dv))]

\* returns the new buffers and device record; the sleep between the close
\* and the open lets the clock, so the next id, move on
handle_interrupt(in24, out16, dv) ==
    [in24 |-> <<>>, out16 |-> <<>>, dv |-> play_stream_open(play_stream_close(dv))]

\* a variant that resamples one block per message
resample_blocks_once(in24, out16) ==
    IF BLen(in24) >= RS_BLOCK_BYTES_24K
      THEN LET block_bytes == BTake(in24, RS_BLOCK_BYTES_24K)
               block16 == agc_process(resample_24k_to_16k_int16(block_bytes))
           IN [in24 |-> BDrop(in24, RS_BLOCK_BYTES_24K), out16 |-> BCat(out16, block16)]
      ELSE [in24 |-> in24, out16 |-> out16]

\* while len(in24_buf) >= RS_BLOCK_BYTES_24K
RECURSIVE resample_blocks(_, _)
resample_blocks(in24, out16) ==
    IF BLen(in24) >= RS_BLOCK_BYTES_24K
      THEN LET block_bytes == BTake(in24, RS_BLOCK_BYTES_24K)
               block16 == agc_process(resample_24k_to_16k_int16(block_bytes))
           IN resample_blocks(BDrop(in24, RS_BLOCK_BYTES_24K), BCat(out16, block16))
      ELSE [in24 |-> in24, out16 |-> out16]

\* a variant that sends nothing before a boundary
drain_out16_at_boundary_only(out16, dv, fail_at) == [out16 |-> out16, dv |-> dv]

\* while len(out16_buf) >= MIN_ENQUEUE_BYTES
RECURSIVE drain_out16(_, _, _)
drain_out16(out16, dv, fail_at) ==
    IF BLen(out16) >= MIN_ENQUEUE_BYTES
      THEN LET send_bytes == Min(BLen(out16), PLAY_CHUNK_BYTES)
               usable == (send_bytes \div FRAME_BYTES_16K) * FRAME_BYTES_16K
           IN IF usable = 0 THEN [out16 |-> out16, dv |-> dv]
              ELSE drain_out16(BDrop(out16, usable),
                               enqueue_16k(dv, BTake(out16, usable), fail_at),
                               fail_at)
      ELSE [out16 |-> out16, dv |-> dv]

----------------------------------------------------------------------------
(* socket_audio.py: one iteration of audio_receiver's loop per action *)

\* the loop handles at most this many messages before the connection closes
MaxMsgs == 5

\* the byte lengths of the decoded audio payloads
AudioSizes == {1, 2, 3839, 3840, 7680}

\* which PlayStream call of an iteration returns a nonzero code (0: none)
FailAt == IF dev_fails THEN {0, 1, 2} ELSE {0}

Device == [sid |-> stream_id, clk |-> id_clock, io |-> <<>>]

Received(kind, n) ==
    [kind |-> kind, n |-> n, prev |-> msg.kind,
     in24_before |-> BLen(in24_buf), out16_before |-> BLen(out16_buf)]

Iteration(kind, n) ==
    /\ pc = "loop"
    /\ n_msgs < MaxMsgs
    /\ n_msgs' = n_msgs + 1
    /\ msg' = Received(kind, n)
    /\ UNCHANGED <<HAS_SCIPY, dev_fails>>

\* {"audio": <n bytes in base64>}
recv_audio(n, fail_at) ==
    LET r == resample_blocks(BCat(in24_buf, Bytes(epoch, n)), out16_buf)
        d == drain_out16(r.out16, Device, fail_at)
    IN /\ Iteration("audio", n)
       /\ in24_buf' = r.in24
       /\ out16_buf' = d.out16
       /\ stream_id' = d.dv.sid
       /\ id_clock' = d.dv.clk
       /\ io' = d.dv.io
       /\ UNCHANGED <<pc, epoch>>

\* {"control": "utterance_end"}, or no message for EOU_TIMEOUT_S
recv_boundary(kind, fail_at) ==
    LET f == flush_utterance_tail(out16_buf, Device, fail_at)
    IN /\ Iteration(kind, 0)
       /\ out16_buf' = f.out16
       /\ stream_id' = f.dv.sid
       /\ id_clock' = f.dv.clk
       /\ io' = f.dv.io
       /\ UNCHANGED <<in24_buf, pc, epoch>>

\* {"control": "interrupt"}
recv_interrupt ==
    LET h == handle_interrupt(in24_buf, out16_buf, Device)
    IN /\ Iteration("interrupt", 0)
       /\ in24_buf' = h.in24
       /\ out16_buf' = h.out16
       /\ stream_id' = h.dv.sid
       /\ id_clock' = h.dv.clk
       /\ io' = h.dv.io
       /\ epoch' = epoch + 1
       /\ UNCHANGED pc

\* a message that is not JSON, has neither a known control nor "audio", or
\* whose audio does not decode: skipped, or caught by `except Exception`
IgnoredKinds == {"not_json", "no_audio", "bad_base64"}
recv_ignored(kind) ==
    /\ Iteration(kind, 0)
    /\ io' = <<>>
    /\ UNCHANGED <<in24_buf, out16_buf, stream_id, id_clock, pc, epoch>>

\* websockets.ConnectionClosed, and what follows the loop
connection_closed(fail_at) ==
    /\ pc = "loop"
    /\ msg' = Received("closed", 0)
    /\ n_msgs' = n_msgs
    /\ UNCHANGED <<HAS_SCIPY, dev_fails, epoch>>
    /\ IF BLen(in24_buf) >= 2 /\ frombuffer_raises(in24_buf)
         THEN \* ValueError inside the except clause leaves audio_receiver
              /\ pc' = "raised"
              /\ io' = <<>>
              /\ UNCHANGED <<in24_buf, out16_buf, stream_id, id_clock>>
         ELSE LET tail16 == agc_process(resample_24k_to_16k_int16(in24_buf))
                  out1 == IF BLen(in24_buf) >= 2 THEN BCat(out16_buf, tail16)
                                                 ELSE out16_buf
                  f == flush_utterance_tail(out1, Device, fail_at)
                  dv1 == IF TAIL_SILENCE_BYTES > 0
                           THEN play_stream_write(f.dv, Zeros(TAIL_SILENCE_BYTES),
                                                  DEVICE_WRITE_CHUNK_BYTES, fail_at)
                           ELSE f.dv
                  dv2 == play_stream_close(dv1)
              IN /\ pc' = "done"
                 /\ in24_buf' = IF BLen(in24_buf) >= 2 THEN <<>> ELSE in24_buf
                 /\ out16_buf' = f.out16
                 /\ stream_id' = dv2.sid
                 /\ id_clock' = dv2.clk
                 /\ io' = dv2.io

\* after the setup of audio_receiver: play_stream_open has made the first id
InitAudio ==
    /\ HAS_SCIPY \in BOOLEAN
    /\ in24_buf = <<>>
    /\ out16_buf = <<>>
    /\ stream_id = 1
    /\ id_clock = 1
    /\ pc = "loop"
    /\ epoch = 1
    /\ n_msgs = 0
    /\ msg = [kind |-> "none", n |-> 0, prev |-> "none", in24_before |-> 0,
             out16_before |-> 0]
    /\ io = <<>>

\* audio_receiver is not part of the wake-word programs
AudioNotStarted ==
    /\ HAS_SCIPY = TRUE
    /\ dev_fails = FALSE
    /\ in24_buf = <<>>
    /\ out16_buf = <<>>
    /\ stream_id = 0
    /\ id_clock = 0
    /\ pc = "none"
    /\ epoch = 1
    /\ n_msgs = 0
    /\ msg = [kind |-> "none", n |-> 0, prev |-> "none", in24_before |-> 0,
             out16_before |-> 0]
    /\ io = <<>>

----------------------------------------------------------------------------
(* The operations with their inputs, and the specifications *)

\* the time that passes before an operation begins (the main loop's sleep, the
\* gaps between messages)
Elapsed == {0, 3, 26}

InitManager ==
    /\ impl \in {"thr", "ex"}
    /\ clock = StartTime
    /\ awake = FALSE
    /\ last_heard_time = 0
    /\ last_trigger_ts = 0
    /\ play_state = 0
    /\ partial_buffer = <<>>
    /\ partial_hits = 0
    /\ IF impl = "thr"
         THEN /\ require_final \in BOOLEAN
              /\ accept_partials \in BOOLEAN
              /\ ignore_when_playing = DEFAULT_IGNORE_WHEN_PLAYING
              /\ need_partial_hits \in {Max(1, n) : n \in {0, 1, 2}}
         ELSE /\ require_final = REQUIRE_FINAL
              /\ accept_partials = FALSE
              /\ ignore_when_playing = IGNORE_WHEN_PLAYING
              /\ need_partial_hits = 1
    /\ n_ops = 0
    /\ ev = NoEvent
    /\ fx = <<>>
    /\ woke = <<>>
    /\ tick_pc = "idle"
    /\ cb_pc = "idle"

ThrAsr ==
    \E d \in Elapsed, text \in ThrTexts, ca \in ThrConfAngles, is_final \in BOOLEAN :
        thr_on_asr_json(d, text, ca[1], is_final, ca[2]) /\ UNCHANGED <<audioVars, call, threadVars>>

ExAsr ==
    \E d \in Elapsed, text \in ExTexts, ca \in ExConfAngles, is_final \in BOOLEAN :
        ex_on_asr_json(d, text, ca[1], is_final, ca[2]) /\ UNCHANGED <<audioVars, call, threadVars>>

ThrTick == \E d \in Elapsed, fail \in Failures : thr_tick(d, fail) /\ UNCHANGED <<audioVars, call, threadVars>>
ExTick == \E d \in Elapsed, fail \in Failures : ex_tick(d, fail) /\ UNCHANGED <<audioVars, call, threadVars>>
PlayState == \E d \in Elapsed, p \in {0, 1, 2} : set_play_state(d, p) /\ UNCHANGED <<audioVars, call, threadVars>>

NextWake == ThrAsr \/ ExAsr \/ ThrTick \/ ExTick \/ PlayState

\* no pure function is being applied
NoCall == [fn |-> "none"]

\* the managers with collaborators that return normally
InitWake == InitManager /\ collab_fails = FALSE /\ AudioNotStarted /\ call = NoCall
SpecWake == InitWake /\ [][NextWake]_vars

\* the managers with collaborators that may raise
InitWakeFaults == InitManager /\ collab_fails = TRUE /\ AudioNotStarted /\ call = NoCall
SpecWakeFaults == InitWakeFaults /\ [][NextWake]_vars

\* the manager of wakeword_sub_asr.py with its two threads interleaved
TickCheck == \E d \in Elapsed : tick_check(d) /\ UNCHANGED <<audioVars, call>>
TickSleep == tick_sleep /\ UNCHANGED <<audioVars, call>>
CbTriggerTs == \E d \in Elapsed : cb_trigger_ts(d) /\ UNCHANGED <<audioVars, call>>
CbTriggerAwake == cb_trigger_awake /\ UNCHANGED <<audioVars, call>>
CbTriggerHeard == cb_trigger_heard /\ UNCHANGED <<audioVars, call>>
NextThreads == TickCheck \/ TickSleep \/ CbTriggerTs \/ CbTriggerAwake \/ CbTriggerHeard
InitThreads ==
    /\ InitManager /\ impl = "thr" /\ collab_fails = FALSE
    /\ AudioNotStarted /\ call = NoCall
SpecThreads == InitThreads /\ [][NextThreads]_vars

\* the wake-word managers are not part of socket_audio.py
ManagerNotStarted ==
    /\ impl = "none"
    /\ clock = StartTime
    /\ awake = FALSE
    /\ last_heard_time = 0
    /\ last_trigger_ts = 0
    /\ play_state = 0
    /\ partial_buffer = <<>>
    /\ partial_hits = 0
    /\ require_final = TRUE
    /\ accept_partials = FALSE
    /\ ignore_when_playing = TRUE
    /\ need_partial_hits = 1
    /\ collab_fails = FALSE
    /\ n_ops = 0
    /\ ev = NoEvent
    /\ fx = <<>>
    /\ woke = <<>>
    /\ tick_pc = "idle"
    /\ cb_pc = "idle"

RecvAudio ==
    \E n \in AudioSizes, k \in FailAt : recv_audio(n, k) /\ UNCHANGED <<wakeVars, call, threadVars>>
RecvUtteranceEnd ==
    \E k \in FailAt : recv_boundary("utterance_end", k) /\ UNCHANGED <<wakeVars, call, threadVars>>
RecvTimeout ==
    \E k \in FailAt : recv_boundary("timeout", k) /\ UNCHANGED <<wakeVars, call, threadVars>>
RecvInterrupt == recv_interrupt /\ UNCHANGED <<wakeVars, call, threadVars>>
RecvIgnored == \E kind \in IgnoredKinds : recv_ignored(kind) /\ UNCHANGED <<wakeVars, call, threadVars>>
ConnectionClosed == \E k \in FailAt : connection_closed(k) /\ UNCHANGED <<wakeVars, call, threadVars>>

NextAudio ==
    RecvAudio \/ RecvUtteranceEnd \/ RecvTimeout \/ RecvInterrupt \/ RecvIgnored
      \/ ConnectionClosed

\* the audio loop with a device that accepts every chunk
InitAudioLoop == InitAudio /\ dev_fails = FALSE /\ ManagerNotStarted /\ call = NoCall
SpecAudio == InitAudioLoop /\ [][NextAudio]_vars

\* the audio loop with a device that may refuse chunks
InitAudioFaults == InitAudio /\ dev_fails = TRUE /\ ManagerNotStarted /\ call = NoCall
SpecAudioFaults == InitAudioFaults /\ [][NextAudio]_vars

----------------------------------------------------------------------------
(* The pure functions, applied to inputs drawn from bounded sets *)

NothingStarted == ManagerNotStarted /\ AudioNotStarted

\* _threshold_for: thresholds and boost in hundredths, angles in degrees
ThresholdConfigs ==
    {Config(cf, cp, 90, ft, fb) : cf \in {0, 3, 20}, cp \in {0, 15},
                                  ft \in {0, 60}, fb \in {0, 5, 25}}
ThresholdAngles == {<<>>, <<29>>, <<30>>, <<90>>, <<150>>, <<151>>}
ThresholdCalls ==
    {[fn |-> "_threshold_for", self |-> c, is_final |-> f, angle |-> a,
      out |-> threshold_with(c, f, a)] :
        c \in ThresholdConfigs, f \in BOOLEAN, a \in ThresholdAngles}
ApplyThreshold == call' \in ThresholdCalls /\ UNCHANGED <<wakeVars, audioVars, threadVars>>
InitThreshold == call = NoCall /\ NothingStarted
SpecThreshold == InitThreshold /\ [][ApplyThreshold]_vars

\* The transport callbacks of main(). A payload is described by what
\* json.loads makes of its text, a field of a dict by the kind of value it
\* holds: "low"/"high" are numbers below / at least the threshold, "numstr"
\* a string that float() and int() accept, "str" any other non-empty string,
\* "num" a non-zero number, "missing" an absent key.
TextKinds == {"missing", "str", "num"}
ConfKinds == {"missing", "null", "low", "high", "numstr", "str", "list"}
FinalKinds == {"missing", "false", "true", "str"}
PlayKinds == {"zero", "num", "numstr", "str", "null", "list"}
AsrDict(t, c, f) == [shape |-> "dict", text |-> t, confidence |-> c, is_final |-> f]
AsrDicts == {AsrDict(t, c, f) : t \in TextKinds, c \in ConfKinds, f \in FinalKinds}
PlayDicts == {[shape |-> "play_dict", play_state |-> k] : k \in PlayKinds}
Shape(s) == [shape |-> s]
IsDict(js) == js.shape \in {"dict", "play_dict", "empty_dict"}
Field(js, k) == IF k \in DOMAIN js THEN js[k] ELSE "missing"

\* raw text that is empty, blank or not JSON parses to {}
_safe_parse_dds_string(raw) ==
    IF raw.shape \in {"empty", "blank", "not_json"} THEN Shape("empty_dict") ELSE raw

\* `if js:`
Truthy(js) == js.shape \notin {"null", "empty_dict", "empty_list"}

\* float(js.get("confidence", 0.0) or 0.0)
float_raises(c) == c \in {"str", "list"}
\* conf < need_conf, for a positive threshold
conf_passes(c) == c \in {"high", "numstr"}
\* bool(js.get("is_final", True))
bool_of(f) == f # "false"
\* (s or "").strip() of a value that is not a string
strip_raises(t) == t = "num"
\* int(js.get("play_state", 0))
int_raises(k) == k \in {"str", "null", "list"}

Outcome(raised, effect) == [raised |-> raised, effect |-> effect]

\* on_asr_json as far as the types of the fields decide it: "fed" is
\* _feed_partial(text), "event" the handling of an event with a string text
on_asr_json_fields(js, suppressed, partials) ==
    LET t == Field(js, "text")
        c == Field(js, "confidence")
        is_final == bool_of(Field(js, "is_final"))
    IN  IF float_raises(c) THEN Outcome(TRUE, "none")
        ELSE IF suppressed THEN Outcome(FALSE, "none")
        ELSE IF ~conf_passes(c)
          THEN Outcome(FALSE, IF ~is_final /\ partials THEN "fed" ELSE "none")
        ELSE IF strip_raises(t) THEN Outcome(TRUE, "none")
        ELSE IF t = "missing"
          THEN Outcome(FALSE, IF is_final THEN "none" ELSE "fed")
        ELSE Outcome(FALSE, "event")

\* _asr_cb: nothing catches what on_asr_json raises, the items after it are
\* not handled
_asr_cb(raw, suppressed, partials) ==
    LET js == _safe_parse_dds_string(raw)
        items == IF js.shape = "list" THEN js.items
                 ELSE IF IsDict(js) THEN <<js>> ELSE <<>>
        outs == [i \in DOMAIN items |->
                   IF IsDict(items[i])
                     THEN on_asr_json_fields(items[i], suppressed, partials)
                     ELSE Outcome(FALSE, "none")]
        raising == {i \in DOMAIN outs : outs[i].raised}
        last == IF raising = {} THEN Len(items)
                ELSE CHOOSE i \in raising : \A j \in raising : i <= j
    IN  IF ~Truthy(js) THEN [raised |-> FALSE, effects |-> {}]
        ELSE [raised |-> raising # {},
              effects |-> {outs[i].effect : i \in 1..last} \ {"none"}]

\* _play_cb
_play_cb(raw) ==
    LET js == _safe_parse_dds_string(raw)
    IN  IF js.shape = "play_dict"
          THEN IF int_raises(js.play_state)
                 THEN [raised |-> TRUE, effects |-> {}]
                 ELSE [raised |-> FALSE, effects |-> {"play_state"}]
          ELSE [raised |-> FALSE, effects |-> {}]

MaxItems == 2
ListItems == {AsrDict("str", "high", "true"), AsrDict("str", "str", "true"),
              AsrDict("str", "low", "false"), Shape("scalar")}
Payloads ==
    {Shape(s) : s \in {"empty", "blank", "not_json", "null", "scalar",
                       "empty_dict", "empty_list"}}
      \cup AsrDicts \cup PlayDicts
      \cup {[shape |-> "list", items |-> l] : l \in UNION {[1..n -> ListItems] : n \in 1..MaxItems}}
ApplyAsrCb ==
    /\ \E p \in Payloads, s \in BOOLEAN, a \in BOOLEAN :
         call' = [fn |-> "_asr_cb", payload |-> p, suppressed |-> s,
                  accept_partials |-> a, out |-> _asr_cb(p, s, a)]
    /\ UNCHANGED <<wakeVars, audioVars, threadVars>>
ApplyPlayCb ==
    /\ \E p \in Payloads : call' = [fn |-> "_play_cb", payload |-> p, out |-> _play_cb(p)]
    /\ UNCHANGED <<wakeVars, audioVars, threadVars>>
NextPayload == ApplyAsrCb \/ ApplyPlayCb
InitPayload == call = NoCall /\ NothingStarted
SpecPayload == InitPayload /\ [][NextPayload]_vars

\* align_frames_16k: byte strings of up to MaxRuns runs, of lengths around
\* the frame size, both values of pad
MaxRuns == 2
RunTags == {0, 1, 2}
RunLens == {1, 639, 640, 641, 1280}
RunSeqs ==
    UNION {[1..n -> RunTags \X RunLens] : n \in 0..MaxRuns}
ByteStrings ==
    {b \in RunSeqs : \A i \in 1..(Len(b) - 1) : b[i][1] # b[i + 1][1]}
AlignCalls ==
    {[fn |-> "align_frames_16k", pcm16_bytes |-> b, pad |-> p,
      out |-> align_frames_16k(b, p)] : b \in ByteStrings, p \in BOOLEAN}
ApplyAlign == call' \in AlignCalls /\ UNCHANGED <<wakeVars, audioVars, threadVars>>
InitAlign == call = NoCall /\ NothingStarted
SpecAlign == InitAlign /\ [][ApplyAlign]_vars

----------------------------------------------------------------------------
(* socket_audio.py: AGCState.  Gains are in thousandths, the smoothing      *)
(* factors in ten-thousandths, samples are int16 values; a float result is  *)
(* rounded to the nearest unit where it is stored (gain) and truncated      *)
(* toward zero where numpy casts it (astype(np.int16)).                     *)

AGC_TARGET_RMS == 8000
AGC_MIN_GAIN == 500
AGC_MAX_GAIN == 8000
\* self.gain = 1.0
InitialGain == 1000
GainUnit == 1000
AlphaUnit == 10000
\* np.exp(-0.02 / 0.010) and np.exp(-0.02 / 0.120)
attack_alpha == 1353
release_alpha == 8465
\* LIMITER_THRESH * 32767.0 = 32111.66, in thousandths of a sample step
limit == 32111660
INT16_MIN == -32768
INT16_MAX == 32767

\* truncation toward zero of v / d
TruncDiv(v, d) == IF v < 0 THEN -((-v) \div d) ELSE v \div d
Clip(v, lo, hi) == IF v < lo THEN lo ELSE IF v > hi THEN hi ELSE v

RECURSIVE isqrt_between(_, _, _)
isqrt_between(n, lo, hi) ==
    IF lo >= hi THEN lo
    ELSE LET mid == (lo + hi + 1) \div 2
         IN IF mid * mid <= n THEN isqrt_between(n, mid, hi)
            ELSE isqrt_between(n, lo, mid - 1)
\* the integer part of np.sqrt(n)
isqrt(n) == isqrt_between(n, 0, 46340)

RECURSIVE mean_square(_, _)
\* np.mean(x * x), each term divided before the sum
mean_square(x, n) ==
    IF x = <<>> THEN 0 ELSE (x[1] * x[1]) \div n + mean_square(Tail(x), n)

PeakOf(y) == IF y = <<>> THEN 0 ELSE
    CHOOSE p \in {Abs(y[i]) : i \in DOMAIN y} : \A i \in DOMAIN y : Abs(y[i]) <= p

\* AGC_TARGET_RMS / rms, before np.clip; rms + 1e-6 of a silent block makes
\* the quotient 8e9, here a gain of 100: the clip hides the difference
target_over_rms(x) ==
    LET rms == isqrt(mean_square(x, Len(x)))
    IN IF rms = 0 THEN 100 * GainUnit
       ELSE (AGC_TARGET_RMS * GainUnit) \div rms

agc_desired_unclipped(x) == target_over_rms(x)

\* desired = np.clip(AGC_TARGET_RMS / rms, AGC_MIN_GAIN, AGC_MAX_GAIN)
agc_desired(x) == Clip(target_over_rms(x), AGC_MIN_GAIN, AGC_MAX_GAIN)

\* alpha * gain + (1 - alpha) * desired
smooth(alpha, gain, desired) ==
    (alpha * gain + (AlphaUnit - alpha) * desired + AlphaUnit \div 2) \div AlphaUnit

agc_gain(gain, x) ==
    LET desired == agc_desired(x)
    IN IF desired > gain THEN smooth(attack_alpha, gain, desired)
       ELSE smooth(release_alpha, gain, desired)

\* np.clip(y, -32768.0, 32767.0).astype(np.int16)
to_int16_unclipped(v) == v
to_int16(v) == Clip(v, INT16_MIN, INT16_MAX)

\* y = x * gain in thousandths; comp = 1 / (over ** (1 - LIMITER_KNEE)) with
\* LIMITER_KNEE = 0.5 is sqrt(limit / peak), here in thousandths
agc_limit(gain, x) ==
    LET y == [i \in DOMAIN x |-> x[i] * gain]
        peak == PeakOf(y)
        \* limit / peak in millionths
        ratio == (limit * 50) \div (peak \div 20000)
        comp == IF peak > limit THEN isqrt(ratio) ELSE GainUnit
    IN [i \in DOMAIN x |->
          to_int16(TruncDiv(TruncDiv(y[i], GainUnit) * comp, GainUnit))]

\* AGCState.process: the new gain and the block returned
process(gain, x_int16) ==
    IF Len(x_int16) = 0 THEN [gain |-> gain, out |-> x_int16]
    ELSE LET g == agc_gain(gain, x_int16)
         IN [gain |-> g, out |-> agc_limit(g, x_int16)]

\* one AGCState, fed up to MaxBlocks blocks of up to MaxBlockLen samples
MaxBlocks == 3
MaxBlockLen == 2
Samples == {INT16_MIN, 0, 100, 4000, INT16_MAX}
Blocks == UNION {[1..n -> Samples] : n \in 0..MaxBlockLen}
AgcInit ==
    [fn |-> "AGCState", n |-> 0, gain_before |-> InitialGain, x |-> <<>>,
     gain |-> InitialGain, out |-> <<>>]
ApplyProcess ==
    /\ call.fn \in {"AGCState", "process"}
    /\ call.n < MaxBlocks
    /\ \E x \in Blocks :
         LET r == process(call.gain, x)
         IN call' = [fn |-> "process", n |-> call.n + 1, gain_before |-> call.gain,
                     x |-> x, gain |-> r.gain, out |-> r.out]
    /\ UNCHANGED <<wakeVars, audioVars, threadVars>>
InitAgc == call = AgcInit /\ NothingStarted
SpecAgc == InitAgc /\ [][ApplyProcess]_vars

\* resample_24k_to_16k_int16: blocks of up to MaxSamples samples and of the
\* loop's block size, with and without scipy
MaxSamples == 60
SampleCounts == 0..MaxSamples \cup {RS_BLOCK_SAMPLES_24K - 1, RS_BLOCK_SAMPLES_24K}
ApplyResample ==
    /\ \E n \in SampleCounts :
         call' = [fn |-> "resample_24k_to_16k_int16", HAS_SCIPY |-> HAS_SCIPY,
                  n |-> n,
                  out |-> resample_24k_to_16k_int16(Bytes(1, 2 * n))]
    /\ UNCHANGED <<wakeVars, audioVars, threadVars>>
InitResample ==
    /\ call = NoCall
    /\ ManagerNotStarted
    /\ HAS_SCIPY \in BOOLEAN
    /\ dev_fails = FALSE /\ in24_buf = <<>> /\ out16_buf = <<>>
    /\ stream_id = 0 /\ id_clock = 0 /\ pc = "none" /\ epoch = 1 /\ n_msgs = 0
    /\ msg = [kind |-> "none", n |-> 0, prev |-> "none", in24_before |-> 0,
             out16_before |-> 0]
    /\ io = <<>>
SpecResample == InitResample /\ [][ApplyResample]_vars

\* fuzzy_contains: texts of up to MaxTextLen characters, a punctuation mark
\* among them, against target lists, with max_dist 0, 1 and 2
MaxTextLen == 4
FuzzyChars == {"xiao", "yuan", "tian", "comma"}
FuzzyTexts == UNION {[1..n -> FuzzyChars] : n \in 0..MaxTextLen}
FuzzyTargetLists ==
    {{<<"xiao", "yuan">>}, {<<"xiao", "comma", "yuan", "tian">>},
     {<<"comma">>, <<"yuan">>}, {<<"tian", "tian", "tian">>, <<"xiao", "yuan">>}}
FuzzyDists == {0, 1, 2}
FuzzyArgs ==
    {[fn |-> "args", text |-> t, targets |-> ts, max_dist |-> k] :
        t \in FuzzyTexts, ts \in FuzzyTargetLists, k \in FuzzyDists}
ApplyFuzzy ==
    /\ call.fn = "args"
    /\ call' = [fn |-> "fuzzy_contains", text |-> call.text, targets |-> call.targets,
                max_dist |-> call.max_dist,
                out |-> fuzzy_contains(call.text, call.targets, call.max_dist)]
    /\ UNCHANGED <<wakeVars, audioVars, threadVars>>
InitFuzzy == call \in FuzzyArgs /\ NothingStarted
SpecFuzzy == InitFuzzy /\ [][ApplyFuzzy]_vars

\* levenshtein_distance: all pairs of strings of up to MaxStrLen characters
\* over three characters, with max_dist 0, 1 and 2
MaxStrLen == 3
LevChars == {"xiao", "yuan", "tian"}
LevStrings == UNION {[1..n -> LevChars] : n \in 0..MaxStrLen}
LevDists == {0, 1, 2}
LevArgs ==
    {[fn |-> "args", a |-> a, b |-> b, max_dist |-> k] :
        a \in LevStrings, b \in LevStrings, k \in LevDists}
ApplyLevenshtein ==
    /\ call.fn = "args"
    /\ call' = [fn |-> "levenshtein_distance", a |-> call.a, b |-> call.b,
                max_dist |-> call.max_dist,
                out |-> levenshtein_distance(call.a, call.b, call.max_dist)]
    /\ UNCHANGED <<wakeVars, audioVars, threadVars>>
InitLevenshtein == call \in LevArgs /\ NothingStarted
SpecLevenshtein == InitLevenshtein /\ [][ApplyLevenshtein]_vars

----------------------------------------------------------------------------
(* What the claims speak of *)

IsAsr(e) == e.op = "asr"
IsTick(e) == e.op = "tick"

Suppressing ==
    IF impl = "thr" THEN ignore_when_playing /\ play_state = 1
    ELSE IGNORE_WHEN_PLAYING /\ play_state = 1

Debounce == IF impl = "thr" THEN debounce_cooldown ELSE DEBOUNCE_COOLDOWN
SessionTimeout == IF impl = "thr" THEN session_timeout ELSE SESSION_TIMEOUT
RequireFinal == IF impl = "thr" THEN require_final ELSE REQUIRE_FINAL
Threshold(e) ==
    IF impl = "thr" THEN _threshold_for(e.is_final, e.angle) ELSE CONFIDENCE_THRESHOLD

\* the event's own text matches a wake pattern
EventMatches(e) ==
    IF impl = "thr" THEN ThrMatch[e.text] ELSE ex_matches_wake(e.text, e.conf)

Calls(f, name, arg) == {i \in DOMAIN f : f[i].call = name /\ f[i].arg = arg}
WakeFeedbackIn(f) == Calls(f, "LedControl", "green") # {} \/ Calls(f, "TtsMaker", "wake") # {}
NoneRaised(f) == \A i \in DOMAIN f : ~f[i].raised

----------------------------------------------------------------------------
(* C1 *)

----------------------------------------------------------------------------
(* C2 *)

\* C2: a tick while awake with now - last_heard_time <= session_timeout changes
\* nothing; a tick while awake with now - last_heard_time > session_timeout sets
\* awake to false and calls LedControl(0, 0, 0) exactly once and nothing else; a
\* tick while asleep changes nothing and calls nothing.
C2_TickTimesOutOnce ==
    [][ IsTick(ev') =>
          /\ IF awake /\ ev'.now - last_heard_time > SessionTimeout
               THEN /\ ~awake'
                    /\ Len(fx') = 1
                    /\ fx'[1].call = "LedControl" /\ fx'[1].arg = "off"
               ELSE /\ awake' = awake
                    /\ fx' = <<>>
          /\ UNCHANGED <<last_heard_time, last_trigger_ts, play_state,
                         partial_buffer, partial_hits>>
      ]_vars

\* the tick that put the session to sleep
C2_Witness ==
    /\ IsTick(ev) /\ ~awake /\ fx # <<>>
    /\ last_heard_time > 0 /\ ev.now - last_heard_time > SessionTimeout

----------------------------------------------------------------------------
(* C3 *)

\* C3: with play-state suppression enabled and play_state = 1, an ASR event
\* leaves awake, last_heard_time, last_trigger_ts, partial_buffer and
\* partial_hits unchanged and no collaborator is called.
C3_SuppressedWhilePlaying ==
    [][ (IsAsr(ev') /\ Suppressing) =>
          /\ UNCHANGED <<awake, last_heard_time, last_trigger_ts,
                         partial_buffer, partial_hits>>
          /\ fx' = <<>>
      ]_vars

\* a high-confidence final wake phrase discarded while playing
C3_Witness ==
    /\ IsAsr(ev) /\ Suppressing
    /\ ev.is_final /\ EventMatches(ev) /\ ev.conf >= Threshold(ev)
    /\ ~awake /\ fx = <<>>

----------------------------------------------------------------------------
(* C4 *)

\* C4: in the threshold-based manager a final event whose text matches a wake
\* pattern, with confidence at or above its effective threshold, handled while
\* asleep, with play_state = 0 and outside the debounce window, sets awake, sets
\* last_trigger_ts and last_heard_time to the time read at the trigger, empties
\* partial_buffer, zeroes partial_hits and calls LedControl(0, 255, 0) and then
\* TtsMaker(WAKE_TTS_TEXT) once each.
C4_FinalWakeTriggers ==
    [][ (/\ IsAsr(ev') /\ impl = "thr"
         /\ ev'.is_final /\ ThrMatch[ev'.text]
         /\ ev'.conf >= _threshold_for(ev'.is_final, ev'.angle)
         /\ ~awake /\ play_state = 0
         /\ ev'.now - last_trigger_ts >= debounce_cooldown) =>
          /\ awake'
          /\ last_trigger_ts' = clock' /\ last_heard_time' = clock'
          /\ clock' >= ev'.now
          /\ partial_buffer' = <<>> /\ partial_hits' = 0
          /\ fx' = <<Call("LedControl", "green", FALSE),
                     Call("TtsMaker", "wake", FALSE)>>
      ]_vars

\* the trigger of a wake phrase that came with confidence 0.17 from the front
C4_Witness ==
    /\ IsAsr(ev) /\ impl = "thr" /\ ev.is_final /\ ThrMatch[ev.text]
    /\ ev.conf >= _threshold_for(ev.is_final, ev.angle)
    /\ play_state = 0
    /\ awake /\ last_trigger_ts = clock /\ last_trigger_ts >= ev.now
    /\ Len(fx) = 2

----------------------------------------------------------------------------
(* C5 *)

\* C5, as claimed: when require_final is true no non-final event causes a wake
\* trigger, whatever accept_partials and need_partial_hits are.
C5_RequireFinalAlone ==
    [][ (IsAsr(ev') /\ RequireFinal /\ ~ev'.is_final) =>
          /\ ~WakeFeedbackIn(fx')
          /\ UNCHANGED <<awake, last_heard_time, last_trigger_ts>>
      ]_vars

\* C5, with accept_partials false: when require_final is true no
\* non-final event causes a wake trigger, whatever need_partial_hits is: it
\* changes neither awake nor the two timestamps nor partial_hits and calls no
\* collaborator; it can only be appended to partial_buffer.
C5_RequireFinalWithoutPartials ==
    [][ (IsAsr(ev') /\ RequireFinal /\ ~accept_partials /\ ~ev'.is_final) =>
          /\ fx' = <<>>
          /\ UNCHANGED <<awake, last_heard_time, last_trigger_ts, partial_hits>>
          /\ \/ partial_buffer' = partial_buffer
             \/ /\ partial_buffer' # <<>>
                /\ partial_buffer'[Len(partial_buffer')] = <<ev'.now, ev'.text>>
      ]_vars

\* a non-final wake phrase above threshold that was only accumulated
C5_Witness ==
    /\ IsAsr(ev) /\ impl = "thr" /\ require_final /\ ~accept_partials
    /\ ~ev.is_final /\ ThrMatch[ev.text] /\ ev.conf >= Threshold(ev)
    /\ ~Suppressing /\ ~awake
    /\ partial_buffer # <<>> /\ fx = <<>>

----------------------------------------------------------------------------
(* C6 *)

\* C6, for the threshold-based manager: while awake, an event that is not
\* suppressed, has confidence at or above its threshold and matches no wake
\* pattern sets last_heard_time to the current time and leaves awake true.
C6_SpeechPostponesTimeout ==
    [][ (/\ IsAsr(ev') /\ impl = "thr" /\ awake /\ ~Suppressing
         /\ ev'.conf >= Threshold(ev')
         /\ ~EventMatches(ev')) =>
          /\ last_heard_time' = ev'.now
          /\ awake'
      ]_vars

----------------------------------------------------------------------------
(* C7 *)

\* the bytes the calls handed to PlayStream, in order
RECURSIVE Written(_)
Written(calls) ==
    IF calls = <<>> THEN <<>>
    ELSE IF calls[1].call = "PlayStream"
           THEN BCat(calls[1].data, Written(Tail(calls)))
           ELSE Written(Tail(calls))

\* C7: after the audio loop has handled an interrupt, in24_buf and out16_buf
\* are empty and the stream has been closed and then reopened under a new id
\* (PlayStop first, the new id after it); and no chunk handed to PlayStream
\* holds a byte of audio received before the last interrupt: its bytes are
\* zero bytes or audio of the current epoch, written under the current id.
C7_InterruptDropsBufferedAudio ==
    /\ msg.kind = "interrupt" =>
         /\ in24_buf = <<>>
         /\ out16_buf = <<>>
         /\ Len(io) = 2
         /\ io[1].call = "PlayStop"
         /\ io[2].call = "new_id"
         /\ io[2].sid = stream_id
         /\ io[2].sid # io[1].sid
    /\ \A i \in DOMAIN io :
         io[i].call = "PlayStream" =>
           /\ BTags(io[i].data) \subseteq {0, epoch}
           /\ io[i].sid = id_clock
    /\ BTags(in24_buf) \cup BTags(out16_buf) \subseteq {epoch}

\* an interrupt arrived while both buffers held audio
C7_Witness ==
    /\ msg.kind = "interrupt"
    /\ msg.in24_before > 0
    /\ msg.out16_before > 0
    /\ in24_buf = <<>>
    /\ out16_buf = <<>>
    /\ epoch = 2

----------------------------------------------------------------------------
(* C8 *)

\* the number of zero bytes that fill n bytes up to whole 640-byte frames
PadTo640(n) == (640 - (n % 640)) % 640

\* C8: an utterance boundary (utterance_end, or a receive timeout) hands to
\* PlayStream the bytes of out16_buf followed by zero bytes up to a whole
\* number of 640-byte frames, and after them exactly 4 frames of zero bytes
\* in a call of their own; nothing else is called, in24_buf is untouched and
\* out16_buf is empty afterwards.
C8_BoundaryFlushesThenSilence ==
    [][ msg'.kind \in {"utterance_end", "timeout"} =>
          /\ out16_buf' = <<>>
          /\ in24_buf' = in24_buf
          /\ \A i \in DOMAIN io' :
               io'[i].call = "PlayStream" /\ io'[i].sid = stream_id
          /\ Len(io') = IF out16_buf = <<>> THEN 1 ELSE 2
          /\ io'[Len(io')].data = Zeros(4 * 640)
          /\ Written(io') =
               BCat(out16_buf, Zeros(PadTo640(BLen(out16_buf)) + 4 * 640))
      ]_vars

\* a boundary arrived while out16_buf held audio: the audio, then the silence
C8_Witness ==
    /\ msg.kind \in {"utterance_end", "timeout"}
    /\ msg.out16_before > 0
    /\ Len(io) = 2
    /\ BTags(io[1].data) = {epoch}
    /\ io[2].data = Zeros(4 * 640)
    /\ out16_buf = <<>>

----------------------------------------------------------------------------
(* C9 *)

\* the whole samples of a byte string
WholeSamples(b) == BTake(b, 2 * (BLen(b) \div 2))

\* C9, as claimed: when the connection closes, whatever in24_buf holds, the
\* loop ends; the remaining audio, resampled, goes to PlayStream after what
\* out16_buf holds, padded to whole frames, then the inter-utterance silence
\* and the 24 frames of trailing silence; and PlayStop is called exactly once,
\* last.
C9_DisconnectFlushesAndCloses ==
    [][ msg'.kind = "closed" =>
          /\ pc' = "done"
          /\ Written(io') =
               LET rest == BCat(out16_buf,
                                resample_24k_to_16k_int16(WholeSamples(in24_buf)))
               IN BCat(rest, Zeros(PadTo640(BLen(rest)) + 4 * 640 + 24 * 640))
          /\ Cardinality({i \in DOMAIN io' : io'[i].call = "PlayStop"}) = 1
          /\ io'[Len(io')].call = "PlayStop"
          /\ stream_id' = 0
      ]_vars

\* C9, for in24_buf holding whole samples: the same
C9_DisconnectWithWholeSamples ==
    [][ (msg'.kind = "closed" /\ ~frombuffer_raises(in24_buf)) =>
          /\ pc' = "done"
          /\ Written(io') =
               LET rest == BCat(out16_buf, resample_24k_to_16k_int16(in24_buf))
               IN BCat(rest, Zeros(PadTo640(BLen(rest)) + 4 * 640 + 24 * 640))
          /\ io'[Len(io')].call = "PlayStop"
      ]_vars

----------------------------------------------------------------------------
(* C10 *)

\* C10: in the threshold-based manager an event whose confidence is below its
\* effective threshold changes none of awake, last_heard_time, last_trigger_ts
\* and partial_hits and calls no collaborator; so every trigger, also one
\* through partial accumulation, is caused by an event at or above its own
\* effective threshold.
C10_BelowThresholdNeverTriggers ==
    [][ (IsAsr(ev') /\ impl = "thr") =>
          /\ ev'.conf < _threshold_for(ev'.is_final, ev'.angle) =>
               /\ UNCHANGED <<awake, last_heard_time, last_trigger_ts, partial_hits>>
               /\ fx' = <<>>
          /\ (WakeFeedbackIn(fx') \/ last_trigger_ts' # last_trigger_ts) =>
               ev'.conf >= _threshold_for(ev'.is_final, ev'.angle)
      ]_vars

\* a non-final wake phrase below the partial threshold, fed to the window of a
\* manager that accepts partials, without a trigger
C10_Witness ==
    /\ IsAsr(ev) /\ impl = "thr" /\ accept_partials /\ ~Suppressing
    /\ ~ev.is_final /\ ThrMatch[ev.text]
    /\ ev.conf < _threshold_for(ev.is_final, ev.angle)
    /\ partial_buffer # <<>> /\ partial_buffer[Len(partial_buffer)] = <<ev.now, ev.text>>
    /\ ~awake /\ partial_hits = 0 /\ fx = <<>>

----------------------------------------------------------------------------
(* C11 *)

\* C11: _threshold_for starts from conf_final for a final event and from
\* conf_partial for a non-final one; with an angle between front_center -
\* front_toler and front_center + front_toler, both ends included, it returns
\* that base minus front_boost, or 0 when that is negative; with no angle or
\* an angle outside the range it returns the base; so the result is never
\* above the base and never negative.
C11_ThresholdByFinalityAndAngle ==
    call.fn = "_threshold_for" =>
      LET c == call.self
          base == IF call.is_final THEN c.conf_final ELSE c.conf_partial
          front == /\ call.angle # <<>>
                   /\ c.front_center - c.front_toler <= call.angle[1]
                   /\ call.angle[1] <= c.front_center + c.front_toler
      IN /\ front /\ base - c.front_boost >= 0 => call.out = base - c.front_boost
         /\ front /\ base - c.front_boost < 0 => call.out = 0
         /\ ~front => call.out = base
         /\ call.out <= base
         /\ call.out >= 0

\* an angle on the upper end of the range, and a boost larger than the base
C11_Witness ==
    /\ call.fn = "_threshold_for"
    /\ call.angle = <<150>>
    /\ call.self.front_toler = 60
    /\ call.is_final
    /\ call.self.conf_final = 20
    /\ call.self.front_boost = 25
    /\ call.out = 0

----------------------------------------------------------------------------
(* C12 *)

\* the entries of buf not older than window_ms at time now
Retained(buf, now) == SelectSeq(buf, LAMBDA e : e[1] >= now - window_ms)

----------------------------------------------------------------------------
(* C13 *)

----------------------------------------------------------------------------
(* C14 *)

HasTimeKeyword(text) ==
    IsSubstring(<<"shi", "jian_time">>, text) \/ IsSubstring(<<"ji", "dian">>, text)
HasIdentityKeyword(text) ==
    IsSubstring(<<"ni", "de", "ming", "zi">>, text) \/ IsSubstring(<<"ni", "shi", "shei">>, text)
HasFarewellKeyword(text) ==
    IsSubstring(<<"zai_again", "jian">>, text) \/ IsSubstring(<<"tui", "chu">>, text)

\* an event the example manager processes while awake as dialogue: not
\* suppressed, final, its text matching no wake pattern
ExDialogue(e) ==
    /\ IsAsr(e) /\ impl = "ex" /\ awake /\ ~Suppressing
    /\ (REQUIRE_FINAL => e.is_final)
    /\ ~ex_matches_wake(e.text, CONFIDENCE_THRESHOLD)

\* C14, as claimed: in the example manager every such event gives exactly one
\* TtsMaker reply; when the text holds a farewell keyword the session is
\* asleep afterwards and the indicator has been turned off, and when it holds
\* none awake stays true.
C14_FarewellKeywordSleeps ==
    [][ ExDialogue(ev') =>
          /\ Cardinality({i \in DOMAIN fx' : fx'[i].call = "TtsMaker"}) = 1
          /\ IF HasFarewellKeyword(ev'.text)
               THEN ~awake' /\ Calls(fx', "LedControl", "off") # {}
               ELSE awake' /\ Calls(fx', "LedControl", "off") = {}
      ]_vars

\* C14, amended: every such event gives exactly one TtsMaker reply, the first
\* that applies of time, identity, farewell, echo; when the text holds a
\* farewell keyword and neither a time nor an identity keyword the session is
\* asleep afterwards and the indicator has been turned off; for every other
\* text awake stays true.
C14_FarewellReplySleeps ==
    [][ ExDialogue(ev') =>
          LET reply == IF HasTimeKeyword(ev'.text) THEN "time"
                       ELSE IF HasIdentityKeyword(ev'.text) THEN "identity"
                       ELSE IF HasFarewellKeyword(ev'.text) THEN "farewell"
                       ELSE "echo"
          IN /\ Cardinality({i \in DOMAIN fx' : fx'[i].call = "TtsMaker"}) = 1
             /\ Calls(fx', "TtsMaker", reply) # {}
             /\ last_heard_time' = ev'.now
             /\ IF reply = "farewell"
                  THEN ~awake' /\ Calls(fx', "LedControl", "off") # {}
                  ELSE awake' /\ Calls(fx', "LedControl", "off") = {}
      ]_vars

\* a farewell while awake: the indicator goes off, then the reply is spoken
C14_Witness ==
    /\ IsAsr(ev) /\ impl = "ex" /\ ev.is_final /\ ~Suppressing
    /\ ev.text = FarewellText
    /\ ~awake
    /\ last_heard_time = ev.now
    /\ fx = <<Call("LedControl", "off", FALSE), Call("TtsMaker", "farewell", FALSE)>>

----------------------------------------------------------------------------
(* C15 *)

\* a call of the step's feedback with this argument raised
Raised(f, arg) == \E i \in DOMAIN f : f[i].raised /\ f[i].arg = arg

\* C15: when LedControl or TtsMaker raises during a wake trigger the handler
\* still runs to its end (the wake log line is written) and the transition
\* stands: awake is true and last_trigger_ts and last_heard_time are the time
\* of the trigger; and when LedControl raises in _sleep awake is false all the
\* same.
C15_FeedbackFailureKeepsTransition ==
    [][ /\ (Raised(fx', "green") \/ Raised(fx', "wake")) =>
              /\ awake'
              /\ last_trigger_ts' = clock'
              /\ last_heard_time' = clock'
              /\ last_trigger_ts' >= ev'.now
              /\ woke' # <<>>
        /\ Raised(fx', "off") => ~awake'
      ]_vars

\* LedControl raised during a trigger of the threshold-based manager, so
\* TtsMaker was not called, and the session is awake
C15_Witness ==
    /\ IsAsr(ev) /\ impl = "thr"
    /\ fx = <<Call("LedControl", "green", TRUE)>>
    /\ awake
    /\ last_trigger_ts = clock
    /\ last_heard_time = clock
    /\ woke # <<>>

----------------------------------------------------------------------------
(* C16 *)

\* the stream ids under which a PlayStream call of these calls was refused
RefusedIds(calls) ==
    {calls[i].sid : i \in {k \in DOMAIN calls :
                             calls[k].call = "PlayStream" /\ calls[k].ret_code # 0}}

\* C16, as claimed: when PlayStream returns a nonzero code the loop keeps
\* running, and after an utterance boundary at which a write was refused the
\* audio of the next utterance is written under a newly made stream id, not
\* under the id of the refused write.
C16_RefusedWriteReopensStream ==
    [][ /\ (RefusedIds(io') # {} /\ msg'.kind # "closed") => pc' = "loop"
        /\ (/\ msg.kind \in {"utterance_end", "timeout"}
            /\ RefusedIds(io) # {}
            /\ msg'.kind = "audio") =>
              \A j \in DOMAIN io' :
                 io'[j].call = "PlayStream" => io'[j].sid \notin RefusedIds(io)
      ]_vars

\* C16, for the call alone: a refused chunk is the last chunk its
\* play_stream_write sends, the loop keeps running, and the stream id stays
\* as it was: no id is made or forgotten.
C16_RefusedWriteEndsItsCall ==
    [][ (RefusedIds(io') # {} /\ msg'.kind # "closed") =>
          /\ pc' = "loop"
          /\ stream_id' = stream_id
          /\ id_clock' = id_clock
      ]_vars

\* a dict that has every field, each of the type the manager expects
WellFormedEvent(js) ==
    /\ js.shape = "dict" /\ js.text = "str"
    /\ js.confidence \in {"low", "high"} /\ js.is_final \in {"false", "true"}
MalformedAsr(p) ==
    CASE p.shape = "dict" -> ~WellFormedEvent(p)
      [] p.shape = "list" -> \E i \in DOMAIN p.items : ~WellFormedEvent(p.items[i])
      [] OTHER -> TRUE
MalformedPlay(p) == p.shape # "play_dict" \/ p.play_state \notin {"zero", "num"}

\* C17 (ASR and play-state topics): a payload that is empty, not JSON, not a
\* dict or list of dicts, or a dict with a missing or wrongly typed field
\* raises nothing out of its callback and changes no session state.
C17_MalformedPayloadIsDiscarded ==
    /\ (call.fn = "_asr_cb" /\ MalformedAsr(call.payload)) =>
          (~call.out.raised /\ call.out.effects = {})
    /\ (call.fn = "_play_cb" /\ MalformedPlay(call.payload)) =>
          (~call.out.raised /\ call.out.effects = {})

\* C17 (ASR and play-state topics, payloads that are not a dict with
\* fields): nothing is raised and no session state changes.
C17_ShapelessPayloadIsDiscarded ==
    (call.fn \in {"_asr_cb", "_play_cb"} /\ call.payload.shape \notin {"dict", "play_dict", "list"}) =>
        (~call.out.raised /\ call.out.effects = {})

\* C17 (audio channel): a message that is not JSON, has neither a control nor
\* an audio field, or whose audio does not decode leaves both buffers as they
\* were, writes nothing, and the loop goes on.
C17_MalformedAudioMessageIsSkipped ==
    [][ msg'.kind \in IgnoredKinds =>
          /\ in24_buf' = in24_buf /\ out16_buf' = out16_buf
          /\ io' = <<>> /\ pc' = "loop" ]_vars

\* C18: align_frames_16k returns (aligned, remainder) with len(aligned) a
\* multiple of 640; without pad the remainder is shorter than a frame and
\* aligned + remainder is the input; with pad the remainder is empty and
\* aligned is the input followed by fewer than 640 zero bytes, none when the
\* input is empty or already a whole number of frames.
C18_AlignFrames ==
    call.fn = "align_frames_16k" =>
      LET b == call.pcm16_bytes
          aligned == call.out[1]
          remainder == call.out[2]
      IN  /\ BLen(aligned) % FRAME_BYTES_16K = 0
          /\ ~call.pad =>
               /\ BLen(remainder) < FRAME_BYTES_16K
               /\ BCat(aligned, remainder) = b
          /\ call.pad =>
               /\ remainder = <<>>
               /\ aligned = BCat(b, Zeros(PadTo640(BLen(b))))
               /\ BLen(aligned) - BLen(b) < FRAME_BYTES_16K
               /\ (BLen(b) % FRAME_BYTES_16K = 0 => aligned = b)
C18_Witness ==
    /\ call.fn = "align_frames_16k" /\ call.pad
    /\ BLen(call.pcm16_bytes) = 641 + 1280
    /\ call.pcm16_bytes[1][1] = 0
    /\ BLen(call.out[1]) = 2560

Between(v, a, b) == (a <= v /\ v <= b) \/ (b <= v /\ v <= a)

\* C19: after every call of process the gain is within [AGC_MIN_GAIN,
\* AGC_MAX_GAIN]; the call leaves the gain between its old value and the
\* clamped desired gain, no further from the desired gain than it was, and a
\* zero-length block leaves it unchanged.
C19_GainStaysInRange ==
    /\ call.fn \in {"AGCState", "process"} =>
         (AGC_MIN_GAIN <= call.gain /\ call.gain <= AGC_MAX_GAIN)
    /\ (call.fn = "process" /\ call.x # <<>>) =>
         LET desired == Clip(target_over_rms(call.x), AGC_MIN_GAIN, AGC_MAX_GAIN)
         IN /\ Between(call.gain, call.gain_before, desired)
            /\ Abs(desired - call.gain) <= Abs(desired - call.gain_before)
    /\ (call.fn = "process" /\ call.x = <<>>) => call.gain = call.gain_before
C19_Witness ==
    /\ call.fn = "process" /\ call.n = 3
    /\ call.x = <<100>>
    /\ call.gain_before > 7 * GainUnit
    /\ call.gain_before < call.gain /\ call.gain < AGC_MAX_GAIN

\* the peak of x * gain, in thousandths, that the limiter compares with limit
GainedPeak(c) == PeakOf([i \in DOMAIN c.x |-> c.x[i] * c.gain])

\* C20: the peak absolute sample value of the block returned by process
\* never exceeds 0.98 x 32767 by more than rounding error (one sample step).
C20_PeakWithinLimiterThreshold ==
    call.fn = "process" => PeakOf(call.out) * GainUnit <= limit + GainUnit

\* C20, with the bound the code keeps: the peak of the returned block never
\* exceeds int16 full scale; it is within 0.98 x 32767 when the gained peak
\* was, and then the block is the gained block, untouched by the limiter.
C20_PeakWithinFullScale ==
    call.fn = "process" =>
      /\ PeakOf(call.out) <= -INT16_MIN
      /\ (call.x # <<>> /\ GainedPeak(call) <= limit) =>
           /\ PeakOf(call.out) * GainUnit <= limit
           /\ call.out = [i \in DOMAIN call.x |-> TruncDiv(call.x[i] * call.gain, GainUnit)]
C20_Witness ==
    /\ call.fn = "process"
    /\ call.x = <<0, INT16_MAX>>
    /\ GainedPeak(call) > limit
    /\ PeakOf(call.out) = INT16_MAX

\* round(n * 2 / 3): 2n/3 is never half-way between two integers
RoundTwoThirds(n) == (4 * n + 3) \div 6

\* C21: for a block of N samples resample_24k_to_16k_int16 returns exactly
\* round(N x 2/3) samples, with and without scipy, N = 1 and N = 2 included,
\* and nothing for N = 0.
C21_ResampledLengthIsRounded ==
    call.fn = "resample_24k_to_16k_int16" =>
        BLen(call.out) = 2 * RoundTwoThirds(call.n)

\* C21, for the blocks of RS_BLOCK_SAMPLES_24K samples the receive loop
\* resamples, and for the empty block
C21_LoopBlockLengthIsRounded ==
    (call.fn = "resample_24k_to_16k_int16" /\ call.n \in {0, RS_BLOCK_SAMPLES_24K}) =>
        BLen(call.out) = 2 * RoundTwoThirds(call.n)

\* the edit distance (insertions, deletions, substitutions), by its recurrence
RECURSIVE EditDistance(_, _)
EditDistance(a, b) ==
    IF a = <<>> THEN Len(b)
    ELSE IF b = <<>> THEN Len(a)
    ELSE Min3(EditDistance(Tail(a), b) + 1,
              EditDistance(a, Tail(b)) + 1,
              EditDistance(Tail(a), Tail(b)) + (IF Head(a) = Head(b) THEN 0 ELSE 1))

Normalized(s) == SelectSeq(s, LAMBDA c : c \notin StripChars)

\* some window of length Len(t) of text is within k of t
WindowWithin(text, t, k) ==
    \E i \in 0..(Len(text) - Len(t)) :
        EditDistance(SubSeq(text, i + 1, i + Len(t)), t) <= k

\* C22: fuzzy_contains is true exactly when, for some non-empty normalized
\* target of length L, some window of length L of the normalized text is
\* within edit distance max_dist of it.
C22_FuzzyIsWindowWithinDistance ==
    call.fn = "fuzzy_contains" =>
      (call.out <=> \E t0 \in call.targets :
                      /\ Normalized(t0) # <<>>
                      /\ WindowWithin(Normalized(call.text), Normalized(t0), call.max_dist))

\* C22, counting a text shorter than the target as its own only window: the
\* text is not empty, and for some non-empty normalized target of length L,
\* either a window of length L of the normalized text is within max_dist of
\* it, or the normalized text is shorter than L and itself within max_dist.
C22_FuzzyIsWindowOrShortTextWithinDistance ==
    call.fn = "fuzzy_contains" =>
      (call.out <=>
         /\ call.text # <<>>
         /\ \E t0 \in call.targets :
              LET t == Normalized(t0)
                  text == Normalized(call.text)
              IN /\ t # <<>>
                 /\ \/ WindowWithin(text, t, call.max_dist)
                    \/ Len(text) < Len(t) /\ EditDistance(text, t) <= call.max_dist)
C22_Witness ==
    /\ call.fn = "fuzzy_contains"
    /\ call.text = <<"tian", "xiao", "comma", "tian">>
    /\ call.targets = {<<"xiao", "yuan">>}
    /\ call.max_dist = 1
    /\ call.out

\* C23: under every interleaving of tick's and on_asr_json's steps, the
\* session is never put to sleep (awake set to false) at a moment when
\* now - last_heard_time <= session_timeout.
C23_SleepOnlyAfterTimeout ==
    [][ (tick_pc = "sleep" /\ tick_pc' = "idle") =>
            clock' - last_heard_time' > session_timeout ]_vars

\* C24: after an audio message in24_buf holds fewer than RS_BLOCK_BYTES_24K
\* bytes, what was left before the message having gone first into the blocks
\* resampled; an utterance boundary (utterance_end or timeout) leaves in24_buf
\* as it was; only audio, an interrupt (which empties it) or the
\* disconnection changes it.
C24_ResidueSurvivesBoundary ==
    [][ /\ msg'.kind = "audio" =>
              /\ BLen(in24_buf') < RS_BLOCK_BYTES_24K
              /\ BLen(in24_buf') = (BLen(in24_buf) + msg'.n) % RS_BLOCK_BYTES_24K
        /\ msg'.kind \in {"utterance_end", "timeout"} => in24_buf' = in24_buf
        /\ msg'.kind = "interrupt" => in24_buf' = <<>>
        /\ in24_buf' # in24_buf => msg'.kind \in {"audio", "interrupt", "closed"}
        /\ (msg'.kind = "closed" /\ in24_buf' # in24_buf) =>
              (in24_buf' = <<>> /\ Written(io') # <<>>)
      ]_vars
C24_Witness ==
    /\ msg.kind \in {"utterance_end", "timeout"}
    /\ msg.in24_before = 3839
    /\ BLen(in24_buf) = 3839
    /\ out16_buf = <<>>

----------------------------------------------------------------------------
(* C25 *)

\* every chunk PlayStream is given is a positive number of whole frames
WholeFrames(calls) ==
    \A i \in DOMAIN calls :
        calls[i].call = "PlayStream" =>
            (BLen(calls[i].data) > 0 /\ BLen(calls[i].data) % FRAME_BYTES_16K = 0)

\* what the blocks completed by n more bytes of audio resample to
NewlyResampled(n) == resample_blocks(BCat(in24_buf, Bytes(epoch, n)), <<>>).out16

\* while the loop runs: the chunks written by a step, followed by what stays
\* in out16_buf, are what out16_buf held followed by the newly resampled
\* audio; a boundary adds only zero bytes
WrittenIsResampled ==
    /\ WholeFrames(io')
    /\ msg'.kind = "audio" =>
         BCat(Written(io'), out16_buf') = BCat(out16_buf, NewlyResampled(msg'.n))
    /\ msg'.kind \in {"utterance_end", "timeout"} =>
         /\ out16_buf' = <<>>
         /\ Written(io') = BCat(out16_buf, Zeros(PadTo640(BLen(out16_buf)) + EOU_SILENCE_BYTES))

\* C25: every chunk handed to PlayStream is a positive multiple of 640
\* bytes, and without interrupts and write failures the chunks written are, in
\* order, the resampled audio with only zero padding and silence added at
\* boundaries: in particular the resampled audio that out16_buf holds when
\* the connection closes is written, first, before the loop is left.
C25_AllResampledAudioIsWritten ==
    [][ /\ WrittenIsResampled
        /\ msg'.kind = "closed" =>
             BTake(Written(io'), BLen(out16_buf)) = out16_buf
      ]_vars

\* C25, while the connection is open, and at its end when in24_buf holds
\* whole samples
C25_WrittenIsResampledWhileConnected ==
    [][ /\ WrittenIsResampled
        /\ (msg'.kind = "closed" /\ ~frombuffer_raises(in24_buf)) =>
             LET rest == BCat(out16_buf, resample_24k_to_16k_int16(in24_buf))
             IN /\ out16_buf' = <<>>
                /\ Written(io') =
                     BCat(rest, Zeros(PadTo640(BLen(rest)) + EOU_SILENCE_BYTES
                                        + TAIL_SILENCE_BYTES))
      ]_vars

----------------------------------------------------------------------------
(* C26 *)

\* C26: after every processed audio or control message out16_buf is shorter
\* than one 640-byte frame.
C26_CarryShorterThanFrame ==
    msg.kind # "none" => BLen(out16_buf) < FRAME_BYTES_16K

\* C26, with the threshold the loop drains at: after every processed message
\* out16_buf is shorter than MIN_ENQUEUE_BYTES (6 frames) and holds whole
\* frames; it is empty after a boundary and after an interrupt.
C26_CarryShorterThanMinEnqueue ==
    msg.kind # "none" =>
        /\ BLen(out16_buf) < MIN_ENQUEUE_BYTES
        /\ BLen(out16_buf) % FRAME_BYTES_16K = 0
        /\ msg.kind \in {"utterance_end", "timeout", "interrupt"} => out16_buf = <<>>
C26_Witness ==
    /\ msg.kind = "audio"
    /\ msg.out16_before = 0
    /\ BLen(out16_buf) = 4 * FRAME_BYTES_16K

----------------------------------------------------------------------------
(* C27 *)

Ordered(buf) == \A i \in 1..(Len(buf) - 1) : buf[i][1] <= buf[i + 1][1]

\* C27: in every reachable state of the threshold-based manager the entries
\* of partial_buffer are in non-decreasing timestamp order, every entry has a
\* timestamp >= now - window_ms, and the buffer is empty right after a trigger.
C27_WindowHoldsOnlyFreshEntries ==
    impl = "thr" =>
        /\ Ordered(partial_buffer)
        /\ \A i \in DOMAIN partial_buffer : partial_buffer[i][1] >= clock - window_ms
        /\ woke # <<>> => partial_buffer = <<>>

\* C27, with the age measured when the buffer was last fed: the entries are
\* in non-decreasing timestamp order, none is older than window_ms at the time
\* of the newest entry (an entry stays in the buffer, however old, until the
\* next one is fed), and the buffer is empty right after a trigger.
C27_WindowFreshAtLastFeed ==
    impl = "thr" =>
        /\ Ordered(partial_buffer)
        /\ \A i \in DOMAIN partial_buffer :
             /\ partial_buffer[i][1] >= partial_buffer[Len(partial_buffer)][1] - window_ms
             /\ partial_buffer[i][1] <= clock
        /\ woke # <<>> => partial_buffer = <<>>

\* two entries fed 3 time units apart are both in the buffer, in order,
\* after a second feed
C27_Witness ==
    /\ impl = "thr" /\ IsAsr(ev) /\ ~ev.is_final
    /\ Len(partial_buffer) = 2
    /\ partial_buffer[1][1] + 3 = partial_buffer[2][1]
    /\ partial_buffer[2] = <<ev.now, ev.text>>
    /\ clock = ev.now

----------------------------------------------------------------------------
(* C28 *)

----------------------------------------------------------------------------
(* C29 *)

\* C29: levenshtein_distance(a, b, k) is the edit distance of a and b when
\* that is at most k, is greater than k when the edit distance is, and is
\* exactly k + 1 when the lengths differ by more than k.
C29_BoundedDistanceIsExactUpToBound ==
    call.fn = "levenshtein_distance" =>
      LET d == EditDistance(call.a, call.b)
          k == call.max_dist
      IN /\ d <= k => call.out = d
         /\ d > k => call.out > k
         /\ Abs(Len(call.a) - Len(call.b)) > k => call.out = k + 1

\* the rows stop early: the lengths are within max_dist of each other, the
\* first row already exceeds it, and the result is greater than max_dist
\* without being the edit distance
C29_Witness ==
    /\ call.fn = "levenshtein_distance"
    /\ call.max_dist = 1
    /\ Len(call.a) = 3 /\ Len(call.b) = 3
    /\ EditDistance(call.a, call.b) = 3
    /\ call.out = 2

----------------------------------------------------------------------------
(* C30 *)

\* C30: a final event whose text matches a wake pattern, with confidence at
\* or above its threshold, handled outside the debounce window and not while
\* playing is suppressed, triggers when the session is already awake as it
\* does when asleep: last_trigger_ts and last_heard_time become the time of
\* the trigger, the partial window and the hit counter are cleared, and
\* LedControl(0, 255, 0) and TtsMaker(WAKE_TTS_TEXT) are called again; every
\* trigger of an awake session gives the wake feedback.
C30_AwakeSessionTriggersAgain ==
    [][ /\ (/\ IsAsr(ev') /\ ev'.is_final /\ EventMatches(ev')
            /\ ev'.conf >= Threshold(ev')
            /\ ~Suppressing
            /\ ev'.now - last_trigger_ts >= Debounce
            /\ awake) =>
              /\ awake'
              /\ woke' = ev'.text
              /\ last_trigger_ts' = clock' /\ last_heard_time' = clock'
              /\ clock' >= ev'.now
              /\ last_trigger_ts' > last_trigger_ts
              /\ partial_buffer' = <<>> /\ partial_hits' = 0
              /\ fx' = <<Call("LedControl", "green", FALSE),
                         Call("TtsMaker", "wake", FALSE)>>
        /\ (awake /\ woke' # <<>>) => WakeFeedbackIn(fx')
      ]_vars

\* the third event of the threshold-based manager, read 1.4 s after the start,
\* triggers. Events come 0, 0.6 or 5.2 s apart and only a trigger reads the
\* time again (0.2 s later), so the first event triggered at 0.2 s, the second
\* came at 0.8 s, inside the debounce window, and the session, which only
\* tick and _sleep put to sleep, was awake when the third event came
C30_Witness ==
    /\ impl = "thr"
    /\ IsAsr(ev) /\ ev.is_final /\ EventMatches(ev)
    /\ n_ops = 3
    /\ ev.now = StartTime + 7
    /\ awake
    /\ woke = ev.text
    /\ last_trigger_ts = clock /\ last_heard_time = clock
    /\ partial_buffer = <<>> /\ partial_hits = 0
    /\ fx = <<Call("LedControl", "green", FALSE), Call("TtsMaker", "wake", FALSE)>>

----------------------------------------------------------------------------
(* C31 *)

\* C31: every receive timeout of the audio loop hands exactly
\* EOU_SILENCE_FRAMES frames of zero bytes to PlayStream, in one call that is
\* the last of the iteration; a timeout that finds out16_buf empty, also one
\* that follows another timeout directly, makes that call and no other, and
\* the buffers stay as they were.
C31_EveryTimeoutWritesSilence ==
    [][ msg'.kind = "timeout" =>
          /\ io' # <<>>
          /\ io'[Len(io')].call = "PlayStream"
          /\ io'[Len(io')].data = Zeros(EOU_SILENCE_FRAMES * FRAME_BYTES_16K)
          /\ io'[Len(io')].sid = stream_id
          /\ (out16_buf = <<>> \/ msg.kind = "timeout") =>
               /\ msg.kind = "timeout" => out16_buf = <<>>
               /\ Len(io') = 1
               /\ Written(io') = Zeros(EOU_SILENCE_FRAMES * FRAME_BYTES_16K)
               /\ out16_buf' = <<>>
               /\ in24_buf' = in24_buf
      ]_vars

\* a timeout that follows a timeout directly, with no audio in between and
\* out16_buf empty: the four frames have been written again
C31_Witness ==
    /\ msg.kind = "timeout"
    /\ msg.prev = "timeout"
    /\ msg.out16_before = 0
    /\ n_msgs >= 2
    /\ io = <<IO("PlayStream", stream_id, Zeros(EOU_SILENCE_FRAMES * FRAME_BYTES_16K), 0)>>

====
